---- MODULE Spec2Model ----
(***************************************************************************)
(* POSM catalogue: the TTL cache (utils/cache), the data service           *)
(* (services/modelService.ts) and its pure search / filter / validation    *)
(* helpers, modelled as state machines.                                    *)
(*                                                                         *)
(* Optional JavaScript values (undefined / null / a value) are sequences:  *)
(* << >> is "absent", <<v>> is the value v.                                *)
(***************************************************************************)
EXTENDS Integers, Sequences, FiniteSets, TLC

VARIABLES
    now,        \* Date.now(), in milliseconds
    ticks,      \* how many times the clock has advanced (bounds the model)
    cache,      \* CacheService.cache: the Map, as its entries in insertion order
    ret,        \* what the last Cache Store operation returned
    lastSet,    \* history: per key, the last set(k, v, ttl) not followed by remove/clear
    calls,      \* the data service calls: per slot, the position of a loadCatalogueIndex / loadModel
    requests,   \* how many times fetch() was called, per URL
    started,    \* how many data service calls were started (bounds the model)
    idxOk,      \* history: the last loadCatalogueIndex that fetched successfully (value, time)
    idxWrites,  \* history: how many loadCatalogueIndex calls have written the cache
    batch,      \* the loadModels call: the state of its Promise.all
    pure,       \* the last call of a pure helper: its name, arguments and result
    storage,    \* localStorage: per key, the text stored (absent when none)
    storeRet,   \* what the last Session Store / Draft Store / view operation returned
    attempts,   \* history: the login calls of the current rate-limit window
    drafted,    \* history: per model id, the draft of the last saveDraft not followed by a clear
    hook,       \* usePOSMMarkers: its state, refs and pending timers
    view,       \* useModelData: its props, state and the loadModel calls it awaits
    bar         \* SearchBar: its props, state and pending timers

cacheVars == <<ret, lastSet>>
dataVars == <<calls, requests, started, idxOk, idxWrites, batch, pure>>
storeVars == <<storage, storeRet, attempts, drafted>>
uiVars == <<hook, view, bar>>
vars == <<now, ticks, cache, ret, lastSet, calls, requests, started, idxOk, idxWrites, batch, pure,
          storage, storeRet, attempts, drafted, hook, view, bar>>

\* ------------------------------------------------------------------ bounds
MaxTime == 4
MaxTTL == 2
MaxTicks == 2
MaxStarts == 2
MaxCalls == 2
MaxQueryLen == 2
MaxModels == 2
MaxFilter == 2
MaxMarkers == 2
MaxLoginCalls == 7

\* ------------------------------------------------------- optional values
None == << >>
Some(v) == <<v>>
IsSome(o) == o # None
Val(o) == o[1]

\* ------------------------------------------------------------ JS Map
\* The positions of key k in the entry list m.
MapIdx(m, k) == {i \in 1..Len(m) : m[i].key = k}

MapHas(m, k) == MapIdx(m, k) # {}

\* Map.prototype.get: the entry under k, or undefined.
MapGet(m, k) ==
    IF MapHas(m, k) THEN Some(m[CHOOSE i \in MapIdx(m, k) : TRUE]) ELSE None

\* A mutation of MapSet: every set appends, also for a key already present.
MapSetAppend(m, k, e) == Append(m, [key |-> k] @@ e)

\* Map.prototype.set: replaces the entry of an existing key in place, appends otherwise.
MapSet(m, k, e) ==
    IF MapHas(m, k)
    THEN [i \in 1..Len(m) |-> IF m[i].key = k THEN [key |-> k] @@ e ELSE m[i]]
    ELSE Append(m, [key |-> k] @@ e)

\* Map.prototype.delete.
MapDelete(m, k) == SelectSeq(m, LAMBDA x : x.key # k)

\* --------------------------------------------------------- CacheService
\* JavaScript truthiness of an optional number: undefined and 0 are falsy.
TruthyNum(o) == IsSome(o) /\ Val(o) # 0

\* `entry.ttl && Date.now() - entry.timestamp > entry.ttl`
EntryExpired(e, t) == TruthyNum(e.ttl) /\ t - e.timestamp > Val(e.ttl)

\* CacheService.get: the value returned, at time t.
CacheGetValue(c, k, t) ==
    LET entry == MapGet(c, k)
    IN  IF ~IsSome(entry) THEN None
        ELSE IF EntryExpired(Val(entry), t) THEN None
        ELSE Some(Val(entry).data)

\* CacheService.get: the Map it leaves, at time t (an expired entry is deleted).
CacheGetStore(c, k, t) ==
    LET entry == MapGet(c, k)
    IN  IF IsSome(entry) /\ EntryExpired(Val(entry), t) THEN MapDelete(c, k) ELSE c

\* CacheService.set at time t.
CacheSetStore(c, k, v, ttl, t) ==
    MapSet(c, k, [data |-> v, timestamp |-> t, ttl |-> ttl])

\* CacheService.size.
CacheSize(c) == Len(c)

\* ========================================================= Data Service
CATALOGUE_INDEX_TTL == 5 * 60 * 1000
MODEL_DATA_TTL == 10 * 60 * 1000

ModelIds == {"a", "b"}
Slots == 1..MaxCalls

IndexKey == "catalogue-index"
ModelKey(id) == "model-" \o id
IndexUrl == "/data/models.json"
ModelUrl(id) == "/data/models/" \o id \o ".json"
Urls == {IndexUrl} \cup {ModelUrl(id) : id \in ModelIds}

\* ---------------------------------------------------------------- HTTP
Statuses == {200, 404, 500}

StatusText(st) ==
    CASE st = 200 -> "OK"
      [] st = 404 -> "Not Found"
      [] OTHER -> "Internal Server Error"

\* Response.ok
ResponseOk(st) == st >= 200 /\ st <= 299

\* How fetch() settles: it rejects at network level, or resolves with a status.
FetchOutcomes ==
    {[net |-> "rejected", status |-> 0]}
        \cup {[net |-> "responded", status |-> st] : st \in Statuses}

\* What response.json() yields: a SyntaxError ("malformed"), null, or a document.
Revs == {1, 2}
MalformedBody == [kind |-> "malformed"]
NullBody == [kind |-> "null"]

IndexDoc(version, models, rev) ==
    [kind |-> "index", version |-> version, models |-> models, rev |-> rev]

IndexBodies ==
    {MalformedBody, NullBody}
        \cup {IndexDoc(Some("1.0"), Some([array |-> TRUE]), r) : r \in Revs}
        \cup {IndexDoc(None, Some([array |-> TRUE]), 1),
              IndexDoc(Some(""), Some([array |-> TRUE]), 1),
              IndexDoc(Some("1.0"), None, 1),
              IndexDoc(Some("1.0"), Some([array |-> FALSE]), 1)}

ModelDoc(id, name, image, rev) ==
    [kind |-> "model", id |-> id, name |-> name, image |-> image, rev |-> rev]

ModelBodies(id) ==
    {MalformedBody, NullBody}
        \cup {ModelDoc(Some(id), Some("Shelf"), Some("img"), r) : r \in Revs}
        \cup {ModelDoc(None, Some("Shelf"), Some("img"), 1),
              ModelDoc(Some(id), Some(""), Some("img"), 1),
              ModelDoc(Some(id), Some("Shelf"), None, 1)}

\* JavaScript truthiness of an optional string: undefined and "" are falsy.
TruthyStr(o) == IsSome(o) /\ Val(o) # ""

\* -------------------------------------------------------------- errors
Err(name, msg, arg) == [name |-> name, msg |-> msg, arg |-> arg]
NetworkFailure == Err("TypeError", "Failed to fetch", "")
JsonSyntaxError == Err("SyntaxError", "Unexpected token in JSON", "")
NullAccess == Err("TypeError", "Cannot read properties of null", "")

Thrown(e) == [threw |-> TRUE, error |-> e]
Returned(v) == [threw |-> FALSE, value |-> v]

\* ---------------------------------------------------- loadCatalogueIndex
\* The try block after `await fetch(...)`: what it throws, or None to go on.
IndexAfterFetch(r) ==
    IF r.net = "rejected" THEN Some(NetworkFailure)
    ELSE IF ~ResponseOk(r.status)
         THEN Some(Err("Error", "Failed to load catalogue index", StatusText(r.status)))
         ELSE None

\* `!data.version || !data.models || !Array.isArray(data.models)`
IndexInvalid(data) ==
    \/ ~TruthyStr(data.version)
    \/ ~IsSome(data.models)
    \/ ~Val(data.models).array

\* A mutation of IndexAfterJson: the result is cached without a time-to-live.
IndexAfterJsonNoTTL(c, body, t) ==
    IF body.kind = "malformed" THEN [out |-> Thrown(JsonSyntaxError), cache |-> c]
    ELSE IF body.kind = "null" THEN [out |-> Thrown(NullAccess), cache |-> c]
    ELSE IF IndexInvalid(body)
         THEN [out |-> Thrown(Err("Error", "Invalid catalogue data format", "")),
               cache |-> c]
         ELSE [out |-> Returned(body), cache |-> CacheSetStore(c, IndexKey, body, None, t)]

\* The try block after `await response.json()`: outcome and the cache it leaves.
IndexAfterJson(c, body, t) ==
    IF body.kind = "malformed" THEN [out |-> Thrown(JsonSyntaxError), cache |-> c]
    ELSE IF body.kind = "null" THEN [out |-> Thrown(NullAccess), cache |-> c]
    ELSE IF IndexInvalid(body)
         THEN [out |-> Thrown(Err("Error", "Invalid catalogue data format", "")),
               cache |-> c]
         ELSE [out |-> Returned(body),
               cache |-> CacheSetStore(c, IndexKey, body, Some(CATALOGUE_INDEX_TTL), t)]

\* A mutation of IndexCatch: the error caught is thrown again as it is.
IndexCatchRethrow(e) == Thrown(e)

\* The catch block: every error becomes the same generic one.
IndexCatch(e) == Thrown(Err("Error", "Failed to load catalogue index", ""))

\* ------------------------------------------------------------ loadModel
\* A mutation of ModelAfterFetch: every response that is not ok is "not found".
ModelAfterFetchAllNotFound(id, r) ==
    IF r.net = "rejected" THEN Some(NetworkFailure)
    ELSE IF ~ResponseOk(r.status) THEN Some(Err("Error", "Model not found", id))
    ELSE None

\* The try block after `await fetch(...)`: what it throws, or None to go on.
ModelAfterFetch(id, r) ==
    IF r.net = "rejected" THEN Some(NetworkFailure)
    ELSE IF ~ResponseOk(r.status)
         THEN IF r.status = 404
              THEN Some(Err("Error", "Model not found", id))
              ELSE Some(Err("Error", "Failed to load model", StatusText(r.status)))
         ELSE None

\* `!data.id || !data.name || !data.image`
ModelInvalid(data) ==
    ~TruthyStr(data.id) \/ ~TruthyStr(data.name) \/ ~IsSome(data.image)

ModelAfterJson(c, id, body, t) ==
    IF body.kind = "malformed" THEN [out |-> Thrown(JsonSyntaxError), cache |-> c]
    ELSE IF body.kind = "null" THEN [out |-> Thrown(NullAccess), cache |-> c]
    ELSE IF ModelInvalid(body)
         THEN [out |-> Thrown(Err("Error", "Invalid model data format", "")), cache |-> c]
         ELSE [out |-> Returned(body),
               cache |-> CacheSetStore(c, ModelKey(id), body, Some(MODEL_DATA_TTL), t)]

\* The catch block logs and rethrows the error it caught.
ModelCatch(e) == Thrown(e)

\* ------------------------------------------------------- call bookkeeping
IdleCall ==
    [op |-> "none", id |-> "", pc |-> "idle", hit |-> FALSE, net |-> "none",
     status |-> 0, body |-> None, out |-> None, epoch |-> 0, bi |-> 0]

\* No loadModels call has been made.
NoBatch ==
    [status |-> "none", ids |-> << >>, values |-> << >>, remaining |-> 0,
     result |-> None, error |-> None, arrival |-> << >>]

DataIdle ==
    /\ calls = [s \in Slots |-> IdleCall]
    /\ requests = [u \in Urls |-> 0]
    /\ started = 0
    /\ idxOk = None
    /\ idxWrites = 0
    /\ batch = NoBatch
    /\ pure = [fn |-> "none"]

FreeSlots == {s \in Slots : calls[s].pc \in {"idle", "done"}}
NextSlot == CHOOSE s \in FreeSlots : \A r \in FreeSlots : s <= r

\* A new call is made once the results of the settled ones have been taken.
Taken == [s \in Slots |-> IF calls[s].pc = "done" THEN IdleCall ELSE calls[s]]

\* ============================================================ localStorage
\* A stored text is the JSON serialization of a document, an ISO timestamp,
\* or some other string ("" and a string that is not JSON).
JsonText(doc) == [kind |-> "json", doc |-> doc]
IsoText(ms) == [kind |-> "iso", ms |-> ms]
RawText(str) == [kind |-> "raw", str |-> str]
EmptyText == RawText("")
GarbageText == RawText("%not json%")

\* JSON.stringify of a document, and JSON.parse of a text: a text that is not
\* JSON makes JSON.parse throw a SyntaxError.
JsonStringify(doc) == JsonText(doc)
JsonParse(text) ==
    IF text.kind = "json" THEN Returned(text.doc) ELSE Thrown(JsonSyntaxError)

\* `!data` for what getItem returned: null and "" are falsy.
FalsyText(data) == ~IsSome(data) \/ Val(data) = EmptyText

\* new Date(ms).toISOString(), and new Date(value).getTime(): None is NaN,
\* what a value that is no date string gives.
ToISOString(ms) == IsoText(ms)
DateGetTime(value) == IF IsSome(value) THEN Some(Val(value).ms) ELSE None

\* The keys.
SESSION_KEY == "posm-catalogue-session"
RateKey(key) == "rate_limit_" \o key
DRAFT_KEY_PREFIX == "posm-draft-"
TIMESTAMP_SUFFIX == "-timestamp"
MARKER_DRAFT_PREFIX == "posm-marker-draft-"
DraftKey(modelId) == DRAFT_KEY_PREFIX \o modelId
TimestampKey(modelId) == DraftKey(modelId) \o TIMESTAMP_SUFFIX
MarkerDraftKey(modelId) == MARKER_DRAFT_PREFIX \o modelId

\* The model ids drafts are kept for: the timestamp key of "a" is the draft
\* key of "a-timestamp".
DraftIds == {"a", "a-timestamp"}

StorageKeys ==
    {SESSION_KEY, RateKey("login")}
        \cup {DraftKey(m) : m \in DraftIds}
        \cup {TimestampKey(m) : m \in DraftIds}
        \cup {MarkerDraftKey(m) : m \in DraftIds}

\* localStorage.getItem / setItem / removeItem.
GetItem(st, key) == st[key]
SetItem(st, key, text) == [st EXCEPT ![key] = Some(text)]
RemoveItem(st, key) == [st EXCEPT ![key] = None]

EmptyStorage == [k \in StorageKeys |-> None]

\* ------------------------------------------------------------ rateLimit
\* rateLimit(key, maxAttempts, windowMs) at time t: what it returns and the
\* storage it leaves. An exception in the try block (JSON.parse of a text that
\* is not JSON) is caught, and the action is allowed.
RateRecord(n, resetTime) == [attempts |-> n, resetTime |-> resetTime]

\* A mutation of rateLimit: the limit test is `attempts <= maxAttempts`.
rateLimitOffByOne(st, key, maxAttempts, windowMs, t) ==
    LET storageKey == RateKey(key)
        data == GetItem(st, storageKey)
        first == SetItem(st, storageKey, JsonStringify(RateRecord(1, t + windowMs)))
    IN  IF FalsyText(data) THEN [ret |-> TRUE, storage |-> first]
        ELSE IF JsonParse(Val(data)).threw THEN [ret |-> TRUE, storage |-> st]
        ELSE LET rec == JsonParse(Val(data)).value
             IN  IF t > rec.resetTime THEN [ret |-> TRUE, storage |-> first]
                 ELSE IF rec.attempts <= maxAttempts
                      THEN [ret |-> TRUE,
                            storage |-> SetItem(st, storageKey,
                                JsonStringify(RateRecord(rec.attempts + 1, rec.resetTime)))]
                      ELSE [ret |-> FALSE, storage |-> st]

\* A mutation of rateLimit: the catch block refuses the action.
rateLimitFailClosed(st, key, maxAttempts, windowMs, t) ==
    LET storageKey == RateKey(key)
        data == GetItem(st, storageKey)
        first == SetItem(st, storageKey, JsonStringify(RateRecord(1, t + windowMs)))
    IN  IF FalsyText(data) THEN [ret |-> TRUE, storage |-> first]
        ELSE IF JsonParse(Val(data)).threw THEN [ret |-> FALSE, storage |-> st]
        ELSE LET rec == JsonParse(Val(data)).value
             IN  IF t > rec.resetTime THEN [ret |-> TRUE, storage |-> first]
                 ELSE IF rec.attempts < maxAttempts
                      THEN [ret |-> TRUE,
                            storage |-> SetItem(st, storageKey,
                                JsonStringify(RateRecord(rec.attempts + 1, rec.resetTime)))]
                      ELSE [ret |-> FALSE, storage |-> st]

rateLimit(st, key, maxAttempts, windowMs, t) ==
    LET storageKey == RateKey(key)
        data == GetItem(st, storageKey)
        first == SetItem(st, storageKey, JsonStringify(RateRecord(1, t + windowMs)))
    IN  IF FalsyText(data) THEN [ret |-> TRUE, storage |-> first]
        ELSE IF JsonParse(Val(data)).threw THEN [ret |-> TRUE, storage |-> st]
        ELSE LET rec == JsonParse(Val(data)).value
             IN  IF t > rec.resetTime THEN [ret |-> TRUE, storage |-> first]
                 ELSE IF rec.attempts < maxAttempts
                      THEN [ret |-> TRUE,
                            storage |-> SetItem(st, storageKey,
                                JsonStringify(RateRecord(rec.attempts + 1, rec.resetTime)))]
                      ELSE [ret |-> FALSE, storage |-> st]

\* A mutation of clearRateLimit: the key removed lacks the prefix.
clearRateLimitBareKey(st, key) == [k \in DOMAIN st |-> IF k = key THEN None ELSE st[k]]

clearRateLimit(st, key) == RemoveItem(st, RateKey(key))

\* --------------------------------------------------------- Session Store
SESSION_DURATION == 24 * 60 * 60 * 1000
MAX_LOGIN_ATTEMPTS == 5
RATE_LIMIT_WINDOW == 15 * 60 * 1000
DEMO_PASSWORD == "admin123"

\* generateSessionToken() draws a random token.
Tokens == {"t1", "t2"}

\* A UserSession; expiresAt is an ISO string, or None when the property is
\* missing.
UserSession(isAuth, token, expiresAt) ==
    [isAuthenticated |-> isAuth, sessionToken |-> token, expiresAt |-> expiresAt,
     mode |-> "admin"]

TooManyAttempts ==
    Err("Error", "Too many login attempts. Please try again in 15 minutes.", "")

logout(st) == RemoveItem(st, SESSION_KEY)

\* A mutation of login: the password is compared before the rate limit is checked.
loginPasswordFirst(st, password, token, t) ==
    IF password = DEMO_PASSWORD
    THEN [out |-> Returned(TRUE),
          storage |-> SetItem(clearRateLimit(st, "login"), SESSION_KEY,
                         JsonStringify(UserSession(TRUE, token,
                                           Some(ToISOString(t + SESSION_DURATION)))))]
    ELSE LET limit == rateLimit(st, "login", MAX_LOGIN_ATTEMPTS, RATE_LIMIT_WINDOW, t)
         IN  IF ~limit.ret THEN [out |-> Thrown(TooManyAttempts), storage |-> limit.storage]
             ELSE [out |-> Returned(FALSE), storage |-> limit.storage]

\* login(password) at time t, the token being the one generated: the outcome
\* of the promise and the storage it leaves. It has no await: it runs in one step.
login(st, password, token, t) ==
    LET limit == rateLimit(st, "login", MAX_LOGIN_ATTEMPTS, RATE_LIMIT_WINDOW, t)
    IN  IF ~limit.ret THEN [out |-> Thrown(TooManyAttempts), storage |-> limit.storage]
        ELSE IF password = DEMO_PASSWORD
             THEN [out |-> Returned(TRUE),
                   storage |-> SetItem(clearRateLimit(limit.storage, "login"), SESSION_KEY,
                                  JsonStringify(UserSession(TRUE, token,
                                                    Some(ToISOString(t + SESSION_DURATION)))))]
             ELSE [out |-> Returned(FALSE), storage |-> limit.storage]

\* `now > expiresAt`: false when expiresAt is NaN.
ExpiredAt(expiresAt, t) == IsSome(expiresAt) /\ t > Val(expiresAt)

\* A mutation of getSession: an expired session is not removed.
getSessionKeepExpired(st, t) ==
    LET sessionData == GetItem(st, SESSION_KEY)
    IN  IF FalsyText(sessionData) THEN [ret |-> None, storage |-> st]
        ELSE IF JsonParse(Val(sessionData)).threw THEN [ret |-> None, storage |-> st]
        ELSE LET session == JsonParse(Val(sessionData)).value
             IN  IF ExpiredAt(DateGetTime(session.expiresAt), t)
                 THEN [ret |-> None, storage |-> st]
                 ELSE [ret |-> Some(session), storage |-> st]

\* getSession() at time t: the session or null (None), and the storage it leaves.
getSession(st, t) ==
    LET sessionData == GetItem(st, SESSION_KEY)
    IN  IF FalsyText(sessionData) THEN [ret |-> None, storage |-> st]
        ELSE IF JsonParse(Val(sessionData)).threw THEN [ret |-> None, storage |-> st]
        ELSE LET session == JsonParse(Val(sessionData)).value
             IN  IF ExpiredAt(DateGetTime(session.expiresAt), t)
                 THEN [ret |-> None, storage |-> logout(st)]
                 ELSE [ret |-> Some(session), storage |-> st]

\* isAuthenticated(): `session !== null && session.isAuthenticated`.
isAuthenticated(st, t) ==
    LET got == getSession(st, t)
    IN  [ret |-> IsSome(got.ret) /\ Val(got.ret).isAuthenticated, storage |-> got.storage]

\* A mutation of refreshSession: the refreshed record is built anew.
refreshSessionAnew(st, t) ==
    LET got == getSession(st, t)
    IN  IF IsSome(got.ret)
        THEN SetItem(got.storage, SESSION_KEY,
                 JsonStringify(UserSession(TRUE, "t1", Some(ToISOString(t + SESSION_DURATION)))))
        ELSE got.storage

\* refreshSession() at time t: the storage it leaves.
refreshSession(st, t) ==
    LET got == getSession(st, t)
    IN  IF IsSome(got.ret)
        THEN SetItem(got.storage, SESSION_KEY,
                 JsonStringify([Val(got.ret) EXCEPT
                                   !.expiresAt = Some(ToISOString(t + SESSION_DURATION))]))
        ELSE got.storage

\* ProtectedRoute: what it renders.
ProtectedRoute ==
    LET isAuthenticatedConst == TRUE
    IN  IF ~isAuthenticatedConst THEN "Authentication Required" ELSE "children"

\* ----------------------------------------------------------- Draft Store
\* A draft is a value JSON.stringify writes and JSON.parse reads back: a
\* ProductModel (its optional description is None when the property is
\* missing or undefined) or an array of POSMMarker.
Coordinates(x, y) == [x |-> x, y |-> y]
POSMMarker(id, position) == [id |-> id, position |-> position]
ProductModel(id, description, posmMarkers) ==
    [id |-> id, description |-> description, posmMarkers |-> posmMarkers]

\* localStorage.setItem throws a QuotaExceededError when the storage is full:
\* `room` is the number of setItem calls of an operation that still succeed.
Rooms == {0, 1, 2}
QuotaExceeded == Err("QuotaExceededError", "The quota has been exceeded", "")
SaveFailed == Err("Error", "Failed to save draft", "")
Void == "undefined"

\* saveDraft(modelId, draftData) at time t: both writes are in one try block,
\* and any exception becomes Error('Failed to save draft').
saveDraft(st, modelId, draftData, t, room) ==
    LET key == DraftKey(modelId)
        timestampKey == TimestampKey(modelId)
        one == SetItem(st, key, JsonStringify(draftData))
        two == SetItem(one, timestampKey, ToISOString(t))
    IN  IF room = 0 THEN [out |-> Thrown(SaveFailed), storage |-> st]
        ELSE IF room = 1 THEN [out |-> Thrown(SaveFailed), storage |-> one]
        ELSE [out |-> Returned(Void), storage |-> two]

\* A mutation of loadDraft: the parse error is not caught.
loadDraftRethrow(st, modelId) ==
    LET draftData == GetItem(st, DraftKey(modelId))
    IN  IF FalsyText(draftData) THEN [out |-> Returned(None), storage |-> st]
        ELSE IF JsonParse(Val(draftData)).threw
             THEN [out |-> Thrown(JsonParse(Val(draftData)).error), storage |-> st]
             ELSE [out |-> Returned(Some(JsonParse(Val(draftData)).value)), storage |-> st]

\* loadDraft(modelId): the draft or null (None); the catch block returns null.
loadDraft(st, modelId) ==
    LET draftData == GetItem(st, DraftKey(modelId))
    IN  IF FalsyText(draftData) THEN [out |-> Returned(None), storage |-> st]
        ELSE IF JsonParse(Val(draftData)).threw
             THEN [out |-> Returned(None), storage |-> st]
             ELSE [out |-> Returned(Some(JsonParse(Val(draftData)).value)), storage |-> st]

\* A mutation of clearDraft: the timestamp record is left behind.
clearDraftDataOnly(st, modelId) == RemoveItem(st, DraftKey(modelId))

clearDraft(st, modelId) ==
    RemoveItem(RemoveItem(st, DraftKey(modelId)), TimestampKey(modelId))

\* hasDraft(modelId): `localStorage.getItem(key) !== null`.
hasDraft(st, modelId) == IsSome(GetItem(st, DraftKey(modelId)))

\* getDraftTimestamp(modelId): the stored string or null (None).
getDraftTimestamp(st, modelId) == GetItem(st, TimestampKey(modelId))

\* key.startsWith(DRAFT_KEY_PREFIX) and key.endsWith(TIMESTAMP_SUFFIX), over
\* the keys of StorageKeys.
DraftTails == DraftIds \cup {m \o TIMESTAMP_SUFFIX : m \in DraftIds}
StartsWithDraftPrefix(key) == \E tail \in DraftTails : key = DRAFT_KEY_PREFIX \o tail
SuffixHeads == {DraftKey(m) : m \in DraftIds} \cup {MarkerDraftKey(m) : m \in DraftIds}
EndsWithTimestampSuffix(key) == \E head \in SuffixHeads : key = head \o TIMESTAMP_SUFFIX

\* getAllDraftIds(): key.substring(DRAFT_KEY_PREFIX.length) of every stored key
\* that has the prefix and not the suffix. The order of localStorage.key(i) is
\* the browser's: the ids are kept as a set.
getAllDraftIds(st) ==
    {tail \in DraftTails :
        LET key == DRAFT_KEY_PREFIX \o tail
        IN  /\ IsSome(GetItem(st, key))
            /\ StartsWithDraftPrefix(key)
            /\ ~EndsWithTimestampSuffix(key)}

\* clearAllDrafts(): clearDraft(id) for every id getAllDraftIds() returned.
clearAllDrafts(st) ==
    LET draftIds == getAllDraftIds(st)
    IN  [k \in DOMAIN st |->
            IF \E id \in draftIds : k \in {DraftKey(id), TimestampKey(id)}
            THEN None ELSE st[k]]

\* The marker-draft helpers of usePOSMMarkers: no timestamp, and saveMarkerDraft
\* has no try block.
saveMarkerDraft(st, modelId, markers, room) ==
    IF room = 0 THEN [out |-> Thrown(QuotaExceeded), storage |-> st]
    ELSE [out |-> Returned(Void),
          storage |-> SetItem(st, MarkerDraftKey(modelId), JsonStringify(markers))]

loadMarkerDraft(st, modelId) ==
    LET data == GetItem(st, MarkerDraftKey(modelId))
    IN  IF FalsyText(data) THEN [out |-> Returned(None), storage |-> st]
        ELSE IF JsonParse(Val(data)).threw
             THEN [out |-> Returned(None), storage |-> st]
             ELSE [out |-> Returned(Some(JsonParse(Val(data)).value)), storage |-> st]

hasMarkerDraft(st, modelId) == IsSome(GetItem(st, MarkerDraftKey(modelId)))

clearMarkerDraft(st, modelId) == RemoveItem(st, MarkerDraftKey(modelId))

\* No Session Store or Draft Store operation has been called; localStorage is empty.
NoStoreRet == [op |-> "none", n |-> 0]

\* No draft was saved.
NoDraft == [held |-> "no"]
SavedDraft(d) == [held |-> "yes", d |-> d]
UnknownDraft == [held |-> "unknown"]
NoDrafted == [m \in DraftIds |-> NoDraft]

StoreIdle ==
    /\ storage = EmptyStorage
    /\ storeRet = NoStoreRet
    /\ attempts = None
    /\ drafted = NoDrafted

\* No component is mounted.
Unmounted == [mounted |-> FALSE]

UiIdle ==
    /\ hook = Unmounted
    /\ view = Unmounted
    /\ bar = Unmounted

\* ==================================================== Cache Store machine
CacheKeys == {"k1", "k2"}
CacheValues == {"v1", "v2"}
CacheTTLs == {None} \cup {Some(n) : n \in 0..MaxTTL}

NoRet == [op |-> "none"]

CacheInit ==
    /\ now = 0
    /\ ticks = 0
    /\ cache = << >>
    /\ ret = NoRet
    /\ lastSet = [k \in CacheKeys |-> None]
    /\ DataIdle
    /\ StoreIdle
    /\ UiIdle

CSet(k, v, ttl) ==
    /\ cache' = CacheSetStore(cache, k, v, ttl, now)
    /\ ret' = [op |-> "set", key |-> k]
    /\ lastSet' = [lastSet EXCEPT ![k] = Some([v |-> v, ttl |-> ttl, t |-> now])]
    /\ UNCHANGED <<now, ticks>>
    /\ UNCHANGED dataVars
    /\ UNCHANGED <<storeVars, uiVars>>

CGet(k) ==
    /\ cache' = CacheGetStore(cache, k, now)
    /\ ret' = [op |-> "get", key |-> k, val |-> CacheGetValue(cache, k, now)]
    /\ UNCHANGED <<now, ticks, lastSet>>
    /\ UNCHANGED dataVars
    /\ UNCHANGED <<storeVars, uiVars>>

\* has(key) is `this.get(key) !== null`.
CHas(k) ==
    /\ cache' = CacheGetStore(cache, k, now)
    /\ ret' = [op |-> "has", key |-> k, val |-> IsSome(CacheGetValue(cache, k, now))]
    /\ UNCHANGED <<now, ticks, lastSet>>
    /\ UNCHANGED dataVars
    /\ UNCHANGED <<storeVars, uiVars>>

CRemove(k) ==
    /\ cache' = MapDelete(cache, k)
    /\ ret' = [op |-> "remove", key |-> k]
    /\ lastSet' = [lastSet EXCEPT ![k] = None]
    /\ UNCHANGED <<now, ticks>>
    /\ UNCHANGED dataVars
    /\ UNCHANGED <<storeVars, uiVars>>

CClear ==
    /\ cache' = << >>
    /\ ret' = [op |-> "clear"]
    /\ lastSet' = [k \in CacheKeys |-> None]
    /\ UNCHANGED <<now, ticks>>
    /\ UNCHANGED dataVars
    /\ UNCHANGED <<storeVars, uiVars>>

CSize ==
    /\ ret' = [op |-> "size", val |-> CacheSize(cache)]
    /\ UNCHANGED <<now, ticks, cache, lastSet>>
    /\ UNCHANGED dataVars
    /\ UNCHANGED <<storeVars, uiVars>>

\* One millisecond passes.
CTick ==
    /\ now < MaxTime
    /\ now' = now + 1
    /\ ticks' = ticks + 1
    /\ ret' = NoRet
    /\ UNCHANGED <<cache, lastSet>>
    /\ UNCHANGED dataVars
    /\ UNCHANGED <<storeVars, uiVars>>

CacheNext ==
    \/ \E k \in CacheKeys, v \in CacheValues, ttl \in CacheTTLs : CSet(k, v, ttl)
    \/ \E k \in CacheKeys : CGet(k)
    \/ \E k \in CacheKeys : CHas(k)
    \/ \E k \in CacheKeys : CRemove(k)
    \/ CClear
    \/ CSize
    \/ CTick

CacheSpec == CacheInit /\ [][CacheNext]_vars

\* ------------------------------------------------------------- claims
\* What get(k) returns according to the stated rule: the value of the last set
\* on k iff that set had no ttl or now - t <= ttl.
C1_Expected(k) ==
    IF IsSome(lastSet[k])
       /\ (Val(lastSet[k]).ttl = None \/ now - Val(lastSet[k]).t <= Val(Val(lastSet[k]).ttl))
    THEN Some(Val(lastSet[k]).v)
    ELSE None

\* C1: after set(k, v, ttl) at time t, with no set/remove/clear on k since,
\* get(k) at time now returns v iff ttl is absent or now - t <= ttl, and
\* absent in every other case.
C1_GetFollowsTTL ==
    ret.op = "get" => ret.val = C1_Expected(ret.key)

\* The keys for which get would return a value now.
LiveKeys == {k \in CacheKeys : IsSome(CacheGetValue(cache, k, now))}

\* An entry under k is held and is past its ttl.
HeldExpired(k) == IsSome(MapGet(cache, k)) /\ EntryExpired(Val(MapGet(cache, k)), now)

C2_Counts ==
    /\ \A k \in CacheKeys : Cardinality(MapIdx(cache, k)) <= 1
    /\ CacheSize(cache) >= Cardinality(LiveKeys)

C2_Steps ==
    /\ now' # now => cache' = cache
    /\ \A k \in CacheKeys :
         (ret'.op \in {"get", "has"} /\ ret'.key = k) =>
            IF HeldExpired(k)
            THEN CacheSize(cache') = CacheSize(cache) - 1 /\ ~MapHas(cache', k)
            ELSE cache' = cache
    /\ ret'.op = "size" => ret'.val = CacheSize(cache) /\ cache' = cache

\* C2: eviction is lazy. Time passing removes nothing, so an expired entry
\* stays counted by size(); a get(k) or has(k) on its key removes it and
\* size() is then one smaller; size() is always at least the number of keys
\* get would return a value for, and no key has two entries.
C2_LazyEviction == [](C2_Counts) /\ [][C2_Steps]_vars

\* size() has just counted an entry that get would no longer return.
C2_Witness ==
    /\ ret.op = "size"
    /\ ret.val > Cardinality(LiveKeys)
    /\ \E k \in CacheKeys : HeldExpired(k)

\* ==================================================== Data Service machine
\* The steps the clock takes: one millisecond, or a whole time-to-live.
IndexJumps == {1, CATALOGUE_INDEX_TTL}
ModelJumps == {1, MODEL_DATA_TTL}

DataInit ==
    /\ now = 0
    /\ ticks = 0
    /\ cache = << >>
    /\ ret = NoRet
    /\ lastSet = [k \in CacheKeys |-> None]
    /\ DataIdle
    /\ StoreIdle
    /\ UiIdle

\* loadCatalogueIndex up to its first await: the cache check and the fetch call.
StartIndex ==
    /\ started < MaxStarts
    /\ FreeSlots # {}
    /\ LET s == NextSlot
           cached == CacheGetValue(cache, IndexKey, now)
           call == [IdleCall EXCEPT !.op = "index", !.epoch = idxWrites]
       IN  /\ cache' = CacheGetStore(cache, IndexKey, now)
           /\ IF IsSome(cached)
              THEN /\ calls' = [Taken EXCEPT ![s] =
                          [call EXCEPT !.pc = "done", !.hit = TRUE,
                                       !.out = Some(Returned(Val(cached)))]]
                   /\ requests' = requests
              ELSE /\ calls' = [Taken EXCEPT ![s] = [call EXCEPT !.pc = "fetch"]]
                   /\ requests' = [requests EXCEPT ![IndexUrl] = @ + 1]
    /\ started' = started + 1
    /\ UNCHANGED <<now, ticks, idxOk, idxWrites, batch, cacheVars, pure>>
    /\ UNCHANGED <<storeVars, uiVars>>

\* loadCatalogueIndex resumes after `await fetch(...)`.
IndexFetchSettle(s, r) ==
    /\ calls[s].op = "index"
    /\ calls[s].pc = "fetch"
    /\ LET e == IndexAfterFetch(r)
           seen == [calls[s] EXCEPT !.net = r.net, !.status = r.status]
       IN  calls' = [calls EXCEPT ![s] =
                IF IsSome(e)
                THEN [seen EXCEPT !.pc = "done", !.out = Some(IndexCatch(Val(e)))]
                ELSE [seen EXCEPT !.pc = "json"]]
    /\ UNCHANGED <<now, ticks, cache, requests, started, idxOk, idxWrites, batch, cacheVars, pure>>
    /\ UNCHANGED <<storeVars, uiVars>>

\* loadCatalogueIndex resumes after `await response.json()`.
IndexJsonSettle(s, body) ==
    /\ calls[s].op = "index"
    /\ calls[s].pc = "json"
    /\ LET res == IndexAfterJson(cache, body, now)
           out == IF res.out.threw THEN IndexCatch(res.out.error) ELSE res.out
       IN  /\ cache' = res.cache
           /\ calls' = [calls EXCEPT ![s] =
                  [@ EXCEPT !.pc = "done", !.body = Some(body), !.out = Some(out)]]
           /\ idxOk' = IF out.threw THEN idxOk ELSE Some([value |-> body, at |-> now])
           /\ idxWrites' = IF out.threw THEN idxWrites ELSE idxWrites + 1
    /\ UNCHANGED <<now, ticks, requests, started, batch, cacheVars, pure>>
    /\ UNCHANGED <<storeVars, uiVars>>

\* A mutation of ModelBegin: no request is issued for a URL already requested.
ModelBeginOnce(c, rq, id, t) ==
    LET cached == CacheGetValue(c, ModelKey(id), t)
        call == [IdleCall EXCEPT !.op = "model", !.id = id]
    IN  IF IsSome(cached)
        THEN [call |-> [call EXCEPT !.pc = "done", !.hit = TRUE,
                                    !.out = Some(Returned(Val(cached)))],
              cache |-> CacheGetStore(c, ModelKey(id), t),
              requests |-> rq]
        ELSE [call |-> [call EXCEPT !.pc = "fetch"],
              cache |-> CacheGetStore(c, ModelKey(id), t),
              requests |-> IF rq[ModelUrl(id)] > 0 THEN rq
                           ELSE [rq EXCEPT ![ModelUrl(id)] = @ + 1]]

\* loadModel up to its first await: the cache check and the fetch call.
ModelBegin(c, rq, id, t) ==
    LET cached == CacheGetValue(c, ModelKey(id), t)
        call == [IdleCall EXCEPT !.op = "model", !.id = id]
    IN  IF IsSome(cached)
        THEN [call |-> [call EXCEPT !.pc = "done", !.hit = TRUE,
                                    !.out = Some(Returned(Val(cached)))],
              cache |-> CacheGetStore(c, ModelKey(id), t),
              requests |-> rq]
        ELSE [call |-> [call EXCEPT !.pc = "fetch"],
              cache |-> CacheGetStore(c, ModelKey(id), t),
              requests |-> [rq EXCEPT ![ModelUrl(id)] = @ + 1]]

\* ----------------------------------------------------------- loadModels
\* A mutation of AllFulfil: the value takes the first free place, so the
\* result is in the order the responses arrive.
AllFulfilArrival(values, i, v) ==
    LET free == {j \in 1..Len(values) : ~IsSome(values[j])}
    IN  [values EXCEPT ![CHOOSE j \in free : \A l \in free : j <= l] = Some(v)]

\* Promise.all, element i fulfilled with v: v is stored at position i.
AllFulfil(values, i, v) == [values EXCEPT ![i] = Some(v)]

\* Promise.all, one more element fulfilled: resolve once none remains.
AllResolve(b) ==
    IF b.remaining = 0
    THEN [b EXCEPT !.status = "fulfilled",
                   !.result = Some([j \in 1..Len(b.values) |-> Val(b.values[j])])]
    ELSE b

\* Promise.all, element i settled with `out`: the first rejection rejects the
\* whole promise; a settled promise stays as it is.
AllSettle(b, i, out) ==
    LET seen == [b EXCEPT !.arrival = Append(@, i)]
    IN  IF b.status # "pending" THEN seen
        ELSE IF out.threw
             THEN [seen EXCEPT !.status = "rejected", !.error = Some(out.error)]
             ELSE AllResolve([seen EXCEPT !.values = AllFulfil(@, i, out.value),
                                          !.remaining = @ - 1])

\* `modelIds.map((id) => loadModel(id))`: the calls start one after the other,
\* call i in slot i; st is <<cache, requests, calls>>.
RECURSIVE ModelsBegin(_, _, _, _)
ModelsBegin(st, ids, i, t) ==
    IF i > Len(ids) THEN st
    ELSE LET b == ModelBegin(st[1], st[2], ids[i], t)
         IN  ModelsBegin(<<b.cache, b.requests,
                           [st[3] EXCEPT ![i] = [b.call EXCEPT !.bi = i]]>>,
                         ids, i + 1, t)

\* Promise.all over the calls just started: those served from the cache are
\* fulfilled already.
RECURSIVE AllBegin(_, _, _)
AllBegin(b, cs, i) ==
    IF i > Len(b.ids) THEN AllResolve(b)
    ELSE AllBegin(IF cs[i].pc = "done"
                  THEN [b EXCEPT !.values = AllFulfil(@, i, Val(cs[i].out).value),
                                 !.remaining = @ - 1,
                                 !.arrival = Append(@, i)]
                  ELSE b,
                  cs, i + 1)

StartModel(id) ==
    /\ started < MaxStarts
    /\ FreeSlots # {}
    /\ LET b == ModelBegin(cache, requests, id, now)
       IN  /\ cache' = b.cache
           /\ requests' = b.requests
           /\ calls' = [Taken EXCEPT ![NextSlot] = b.call]
    /\ started' = started + 1
    /\ UNCHANGED <<now, ticks, idxOk, idxWrites, batch, cacheVars, pure>>
    /\ UNCHANGED <<storeVars, uiVars>>

\* loadModels(ids): every loadModel call starts, then Promise.all awaits them.
StartModels(ids) ==
    /\ started + Len(ids) <= MaxStarts
    /\ FreeSlots = Slots
    /\ batch.status # "pending"
    /\ LET st == ModelsBegin(<<cache, requests, [s \in Slots |-> IdleCall]>>, ids, 1, now)
           fresh == [NoBatch EXCEPT !.status = "pending", !.ids = ids,
                                    !.values = [j \in 1..Len(ids) |-> None],
                                    !.remaining = Len(ids)]
       IN  /\ cache' = st[1]
           /\ requests' = st[2]
           /\ calls' = st[3]
           /\ batch' = AllBegin(fresh, st[3], 1)
    /\ started' = started + Len(ids)
    /\ UNCHANGED <<now, ticks, idxOk, idxWrites, cacheVars, pure>>
    /\ UNCHANGED <<storeVars, uiVars>>

\* loadModel resumes after `await fetch(...)`.
ModelFetchSettle(s, r) ==
    /\ calls[s].op = "model"
    /\ calls[s].pc = "fetch"
    /\ LET e == ModelAfterFetch(calls[s].id, r)
           seen == [calls[s] EXCEPT !.net = r.net, !.status = r.status]
       IN  IF IsSome(e)
           THEN /\ calls' = [calls EXCEPT ![s] =
                       [seen EXCEPT !.pc = "done", !.out = Some(ModelCatch(Val(e)))]]
                /\ batch' = IF seen.bi = 0 THEN batch
                            ELSE AllSettle(batch, seen.bi, ModelCatch(Val(e)))
           ELSE /\ calls' = [calls EXCEPT ![s] = [seen EXCEPT !.pc = "json"]]
                /\ batch' = batch
    /\ UNCHANGED <<now, ticks, cache, requests, started, idxOk, idxWrites, cacheVars, pure>>
    /\ UNCHANGED <<storeVars, uiVars>>

\* loadModel resumes after `await response.json()`.
ModelJsonSettle(s, body) ==
    /\ calls[s].op = "model"
    /\ calls[s].pc = "json"
    /\ LET res == ModelAfterJson(cache, calls[s].id, body, now)
           out == IF res.out.threw THEN ModelCatch(res.out.error) ELSE res.out
       IN  /\ cache' = res.cache
           /\ calls' = [calls EXCEPT ![s] =
                  [@ EXCEPT !.pc = "done", !.body = Some(body), !.out = Some(out)]]
           /\ batch' = IF calls[s].bi = 0 THEN batch ELSE AllSettle(batch, calls[s].bi, out)
    /\ UNCHANGED <<now, ticks, requests, started, idxOk, idxWrites, cacheVars, pure>>
    /\ UNCHANGED <<storeVars, uiVars>>

\* Time passes.
Advance(d) ==
    /\ ticks < MaxTicks
    /\ now' = now + d
    /\ ticks' = ticks + 1
    /\ UNCHANGED <<cache, cacheVars, dataVars>>
    /\ UNCHANGED <<storeVars, uiVars>>

\* The catalogue index loads.
IndexNext ==
    \/ StartIndex
    \/ \E s \in Slots, r \in FetchOutcomes : IndexFetchSettle(s, r)
    \/ \E s \in Slots, body \in IndexBodies : IndexJsonSettle(s, body)
    \/ \E d \in IndexJumps : Advance(d)

IndexSpec == DataInit /\ [][IndexNext]_vars

\* The model document loads.
Next ==
    \/ \E id \in ModelIds : StartModel(id)
    \/ \E s \in Slots, r \in FetchOutcomes : ModelFetchSettle(s, r)
    \/ \E s \in Slots : \E body \in ModelBodies(calls[s].id) : ModelJsonSettle(s, body)
    \/ \E d \in ModelJumps : Advance(d)

Spec == DataInit /\ [][Next]_vars

\* The loadModels calls.
IdLists == UNION {[1..n -> ModelIds] : n \in 0..MaxCalls}

ModelsNext ==
    \/ \E ids \in IdLists : StartModels(ids)
    \/ \E s \in Slots, r \in FetchOutcomes : ModelFetchSettle(s, r)
    \/ \E s \in Slots : \E body \in ModelBodies(calls[s].id) : ModelJsonSettle(s, body)
    \/ \E d \in ModelJumps : Advance(d)

ModelsSpec == DataInit /\ [][ModelsNext]_vars

\* ------------------------------------------------------------- claims
FiveMinutes == 5 * 60 * 1000
TenMinutes == 10 * 60 * 1000

\* The step starts a data service call.
IsStart == started' # started

C3_Steps ==
    (IsStart /\ IsSome(idxOk)) =>
        LET s == NextSlot
        IN  IF now - Val(idxOk).at <= FiveMinutes
            THEN /\ requests' = requests
                 /\ calls'[s].pc = "done"
                 /\ calls'[s].out = Some(Returned(Val(idxOk).value))
            ELSE /\ requests'[IndexUrl] = requests[IndexUrl] + 1
                 /\ calls'[s].pc = "fetch"

\* C3: a loadCatalogueIndex call that starts within 5 minutes of the last
\* successful load issues no HTTP request and returns the value that load
\* returned; one that starts more than 5 minutes after it issues a new request.
C3_IndexServedFromCache == [][C3_Steps]_vars

\* Two calls were made, one request was issued, and the second call was
\* served the first one's value from the cache.
C3_Witness ==
    /\ started = 2
    /\ requests[IndexUrl] = 1
    /\ IsSome(idxOk)
    /\ \E s \in Slots :
         /\ calls[s].pc = "done"
         /\ calls[s].hit
         /\ calls[s].out = Some(Returned(Val(idxOk).value))

GenericIndexError == Err("Error", "Failed to load catalogue index", "")

\* What the server did makes the load a failure.
C4_Failure(c) ==
    \/ c.net = "rejected"
    \/ c.net = "responded" /\ ~(c.status \in 200..299)
    \/ /\ IsSome(c.body)
       /\ \/ Val(c.body).kind \in {"malformed", "null"}
          \/ /\ Val(c.body).kind = "index"
             /\ \/ Val(c.body).version = None
                \/ Val(c.body).models = None
                \/ ~Val(Val(c.body).models).array

C4_Reported ==
    \A s \in Slots :
        (calls[s].op = "index" /\ calls[s].pc = "done" /\ C4_Failure(calls[s])) =>
            calls[s].out = Some(Thrown(GenericIndexError))

C4_Steps ==
    /\ \A s \in Slots :
         (calls[s].op = "index" /\ calls[s].pc # "done" /\ calls'[s].pc = "done"
            /\ Val(calls'[s].out).threw) =>
                /\ Val(calls'[s].out).error = GenericIndexError
                /\ cache' = cache
    /\ (IsStart /\ \E f \in Slots :
            /\ calls[f].op = "index" /\ calls[f].pc = "done"
            /\ Val(calls[f].out).threw
            /\ calls[f].epoch = idxWrites) =>
                requests'[IndexUrl] = requests[IndexUrl] + 1

\* C4: every failure of loadCatalogueIndex (network error, non-2xx response,
\* malformed JSON, missing version, models not a sequence) reaches the caller
\* as the same generic error; the failing call writes nothing to the cache,
\* and the call after a failure (no load having succeeded meanwhile) issues a
\* new request.
C4_IndexFailureIsGeneric == [](C4_Reported) /\ [][C4_Steps]_vars

\* A call failed on malformed JSON after an earlier failure: the second
\* request was issued and the cache is still empty.
C4_Witness ==
    /\ requests[IndexUrl] = 2
    /\ cache = << >>
    /\ \E s \in Slots :
         /\ calls[s].op = "index" /\ calls[s].pc = "done"
         /\ calls[s].body = Some(MalformedBody)
         /\ calls[s].out = Some(Thrown(GenericIndexError))

\* The document has id, name and image.
C5_Complete(body) ==
    /\ body.kind = "model"
    /\ IsSome(body.id) /\ Val(body.id) # ""
    /\ IsSome(body.name) /\ Val(body.name) # ""
    /\ IsSome(body.image)

C5_Outcomes ==
    \A s \in Slots :
        (calls[s].op = "model" /\ calls[s].pc = "done" /\ ~calls[s].hit) =>
            LET c == calls[s]
                out == Val(c.out)
            IN  /\ (out.threw /\ out.error.msg = "Model not found")
                        <=> (c.net = "responded" /\ c.status = 404)
                /\ (c.net = "responded" /\ ~(c.status \in 200..299) /\ c.status # 404) =>
                        out = Thrown(Err("Error", "Failed to load model", StatusText(c.status)))
                /\ (c.net = "responded" /\ c.status \in 200..299
                        /\ IsSome(c.body) /\ C5_Complete(Val(c.body))) =>
                        out = Returned(Val(c.body))

C5_Steps ==
    \A s \in Slots :
        (calls[s].op = "model" /\ calls[s].pc = "json" /\ calls'[s].pc = "done"
            /\ ~Val(calls'[s].out).threw) =>
                MapGet(cache', "model-" \o calls[s].id) =
                    Some([key |-> "model-" \o calls[s].id,
                          data |-> Val(calls'[s].out).value,
                          timestamp |-> now,
                          ttl |-> Some(TenMinutes)])

\* C5: on a cache miss loadModel fails with "model not found" iff the response
\* status is 404; any other non-2xx status fails with the generic "failed to
\* load model" error; a 2xx response whose document has id, name and image is
\* returned, and cached under "model-<id>" with a time-to-live of 10 minutes.
C5_ModelOutcomes == [](C5_Outcomes) /\ [][C5_Steps]_vars

\* One call got a 404 and failed with "model not found", another got a
\* complete document, returned it, and the cache holds it.
C5_Witness ==
    \E s, r \in Slots :
        /\ calls[s].pc = "done" /\ calls[s].status = 404
        /\ calls[s].out = Some(Thrown(Err("Error", "Model not found", calls[s].id)))
        /\ calls[r].pc = "done" /\ ~calls[r].hit /\ ~Val(calls[r].out).threw
        /\ IsSome(CacheGetValue(cache, ModelKey(calls[r].id), now))

\* The kind of the error taxonomy an error belongs to.
ErrorKind(e) ==
    IF e.name = "Error" /\ e.msg = "Model not found" THEN "NotFoundError"
    ELSE IF e.name = "Error" /\ e.msg \in {"Failed to load model", "Failed to load catalogue index"}
         THEN "FetchError"
    ELSE IF e.name = "Error" /\ e.msg \in {"Invalid model data format", "Invalid catalogue data format"}
         THEN "ValidationError"
    ELSE "raw"

\* C6: when loadModel's fetch rejects at network level, or the response body
\* is not parsable JSON, the error the caller receives is a NotFoundError or
\* the generic FetchError, never the raw network or JSON parsing exception.
C6_NoRawException ==
    \A s \in Slots :
        (/\ calls[s].op = "model" /\ calls[s].pc = "done"
         /\ (calls[s].net = "rejected" \/ calls[s].body = Some(MalformedBody))) =>
            /\ Val(calls[s].out).threw
            /\ ErrorKind(Val(calls[s].out).error) \in {"NotFoundError", "FetchError"}

\* The loadModel calls of the loadModels call.
Kids == 1..Len(batch.ids)

\* C7: when every load of loadModels(ids) succeeds, the result has the length
\* of ids and its i-th element is what the load of ids[i] returned, the
\* document of ids[i], in whatever order the responses arrived; when a load
\* fails the whole call fails, and no result, partial or not, is returned.
C7_LoadModelsAligned ==
    batch.status # "none" =>
        /\ (\A i \in Kids : calls[i].pc = "done" /\ ~Val(calls[i].out).threw) =>
              /\ batch.status = "fulfilled"
              /\ Len(Val(batch.result)) = Len(batch.ids)
              /\ \A i \in Kids :
                   /\ calls[i].id = batch.ids[i]
                   /\ Val(batch.result)[i] = Val(calls[i].out).value
                   /\ Val(batch.result)[i].id = Some(batch.ids[i])
        /\ (\E i \in Kids : calls[i].pc = "done" /\ Val(calls[i].out).threw) =>
              /\ batch.status = "rejected"
              /\ IsSome(batch.error)
        /\ batch.status \in {"pending", "rejected"} => batch.result = None

\* Two different models were loaded, the second response arrived first.
C7_Witness ==
    /\ batch.status = "fulfilled"
    /\ Len(batch.ids) = 2
    /\ batch.ids[1] # batch.ids[2]
    /\ batch.arrival = <<2, 1>>

\* ============================================================ pure helpers
\* Strings are sequences of characters.
Chars == {"a", "A", "b", "B", " "}

\* String.prototype.toLowerCase, one character.
LowerChar(c) == CASE c = "A" -> "a" [] c = "B" -> "b" [] OTHER -> c

\* String.prototype.toLowerCase.
ToLowerCase(str) == [i \in 1..Len(str) |-> LowerChar(str[i])]

\* String.prototype.trim: leading and trailing white space is dropped.
RECURSIVE TrimStart(_)
TrimStart(str) ==
    IF str # << >> /\ Head(str) = " " THEN TrimStart(Tail(str)) ELSE str

RECURSIVE TrimEnd(_)
TrimEnd(str) ==
    IF str # << >> /\ str[Len(str)] = " "
    THEN TrimEnd(SubSeq(str, 1, Len(str) - 1))
    ELSE str

Trim(str) == TrimEnd(TrimStart(str))

\* String.prototype.includes.
Includes(str, part) ==
    \E i \in 0..(Len(str) - Len(part)) : SubSeq(str, i + 1, i + Len(part)) = part

\* Array.prototype.filter: the elements whose test passed, in their order;
\* pass[i] is what the callback returned for arr[i].
RECURSIVE ArrayFilter(_, _)
ArrayFilter(arr, pass) ==
    IF arr = << >> THEN << >>
    ELSE IF Head(pass)
         THEN <<Head(arr)>> \o ArrayFilter(Tail(arr), Tail(pass))
         ELSE ArrayFilter(Tail(arr), Tail(pass))

\* Array.prototype.includes.
ArrayIncludes(arr, x) == \E i \in 1..Len(arr) : arr[i] = x

\* Array.prototype.some; pass[i] is what the callback returned for arr[i].
ArraySome(arr, pass) == \E i \in 1..Len(arr) : pass[i]

\* A mutation of SearchTerm: the query is not lower-cased.
SearchTermAsTyped(query) == Trim(query)

\* `query.toLowerCase().trim()`
SearchTerm(query) == Trim(ToLowerCase(query))

\* searchModels(query, catalogue), models being catalogue.models.
searchModels(query, models) ==
    IF query = << >> \/ Trim(query) = << >> THEN models
    ELSE LET searchTerm == SearchTerm(query)
             Match(model) ==
                 LET nameMatch == Includes(ToLowerCase(model.name), searchTerm)
                     codeMatch == IF IsSome(model.code)
                                  THEN Includes(ToLowerCase(Val(model.code)), searchTerm)
                                  ELSE FALSE
                 IN  nameMatch \/ codeMatch
         IN  ArrayFilter(models, [i \in 1..Len(models) |-> Match(models[i])])

\* A mutation of CategoryMatch: the model must have every requested category.
CategoryMatchAll(categoryIds, model) ==
    \A i \in 1..Len(categoryIds) : ArrayIncludes(model.categoryIds, categoryIds[i])

\* `model.categoryIds.some((catId) => categoryIds.includes(catId))`
CategoryMatch(categoryIds, model) ==
    LET Wanted(catId) == ArrayIncludes(categoryIds, catId)
    IN  ArraySome(model.categoryIds,
                  [i \in 1..Len(model.categoryIds) |-> Wanted(model.categoryIds[i])])

\* filterModelsByCategory(categoryIds, catalogue), models being catalogue.models.
filterModelsByCategory(categoryIds, models) ==
    IF categoryIds = << >> THEN models
    ELSE LET Match(model) == CategoryMatch(categoryIds, model)
         IN  ArrayFilter(models, [i \in 1..Len(models) |-> Match(models[i])])

\* ---------------------------------------------------------- validateModel
\* JavaScript values: undefined, a string, a number, and a string that
\* spells a number (it converts to that number in a comparison).
JsUndefined == [t |-> "undefined"]
JsString(v) == [t |-> "string", str |-> v]
JsNumber(n) == [t |-> "number", num |-> n]
JsNumeral(n) == [t |-> "string", str |-> "numeral", n |-> n]

TypeOf(js) == js.t

Truthy(js) ==
    CASE js.t = "undefined" -> FALSE
      [] js.t = "string" -> js.str # ""
      [] js.t = "number" -> js.num # 0

\* The number a relational comparison converts the value to; None is NaN.
ToNumber(js) ==
    CASE js.t = "number" -> Some(js.num)
      [] js.t = "string" /\ "n" \in DOMAIN js -> Some(js.n)
      [] OTHER -> None

\* `a < k`, `a > k` and `a <= k`: false when a converts to NaN.
JsLess(js, k) == IsSome(ToNumber(js)) /\ Val(ToNumber(js)) < k
JsGreater(js, k) == IsSome(ToNumber(js)) /\ Val(ToNumber(js)) > k
JsAtMost(js, k) == IsSome(ToNumber(js)) /\ Val(ToNumber(js)) <= k

ValidationError(field, message) == [field |-> field, message |-> message]

\* `posmMarkers[${index}]` followed by the rest of the field's path.
MarkerField(index, rest) == "posmMarkers[" \o ToString(index) \o "]" \o rest

XError(index) ==
    ValidationError(MarkerField(index, ".position.x"), "X coordinate must be between 0 and 100")
YError(index) ==
    ValidationError(MarkerField(index, ".position.y"), "Y coordinate must be between 0 and 100")
PositionError(index) ==
    ValidationError(MarkerField(index, ".position"), "Invalid position coordinates")

\* A mutation of MarkerCheck: the y check is skipped once x was reported.
MarkerCheckElseIf(marker, index) ==
    IF marker.kind = "null" THEN [threw |-> TRUE, errors |-> << >>]
    ELSE IF ~IsSome(marker.position)
         THEN [threw |-> TRUE, errors |-> <<PositionError(index)>>]
         ELSE LET pos == Val(marker.position)
                  e1 == IF TypeOf(pos.x) # "number" \/ TypeOf(pos.y) # "number"
                        THEN <<PositionError(index)>> ELSE << >>
                  e2 == IF JsLess(pos.x, 0) \/ JsGreater(pos.x, 100)
                        THEN <<XError(index)>>
                        ELSE IF JsLess(pos.y, 0) \/ JsGreater(pos.y, 100)
                             THEN <<YError(index)>> ELSE << >>
              IN  [threw |-> FALSE, errors |-> e1 \o e2]

\* The forEach callback on one marker: the errors it pushes, and whether it
\* throws (a TypeError, on reading a property of null or undefined).
MarkerCheck(marker, index) ==
    IF marker.kind = "null" THEN [threw |-> TRUE, errors |-> << >>]
    ELSE IF ~IsSome(marker.position)
         THEN [threw |-> TRUE, errors |-> <<PositionError(index)>>]
         ELSE LET pos == Val(marker.position)
                  e1 == IF TypeOf(pos.x) # "number" \/ TypeOf(pos.y) # "number"
                        THEN <<PositionError(index)>> ELSE << >>
                  e2 == IF JsLess(pos.x, 0) \/ JsGreater(pos.x, 100)
                        THEN <<XError(index)>> ELSE << >>
                  e3 == IF JsLess(pos.y, 0) \/ JsGreater(pos.y, 100)
                        THEN <<YError(index)>> ELSE << >>
              IN  [threw |-> FALSE, errors |-> e1 \o e2 \o e3]

\* `m.posmMarkers.forEach(...)` from marker i on (the callback's index is
\* i - 1); an exception in the callback ends the loop.
RECURSIVE MarkersCheck(_, _, _)
MarkersCheck(items, i, errors) ==
    IF i > Len(items) THEN [threw |-> FALSE, errors |-> errors]
    ELSE LET one == MarkerCheck(items[i], i - 1)
         IN  IF one.threw THEN [threw |-> TRUE, errors |-> errors \o one.errors]
             ELSE MarkersCheck(items, i + 1, errors \o one.errors)

ImageCheck(image) ==
    IF image.kind # "object" THEN <<ValidationError("image", "Image is required")>>
    ELSE (IF ~Truthy(image.url)
          THEN <<ValidationError("image.url", "Image URL is required")>> ELSE << >>)
      \o (IF TypeOf(image.width) # "number" \/ JsAtMost(image.width, 0)
          THEN <<ValidationError("image.width", "Image width must be a positive number")>>
          ELSE << >>)
      \o (IF TypeOf(image.height) # "number" \/ JsAtMost(image.height, 0)
          THEN <<ValidationError("image.height", "Image height must be a positive number")>>
          ELSE << >>)

\* validateModel(model): the result it returns, or the exception it throws.
validateModel(m) ==
    IF m.kind # "object"
    THEN Returned([valid |-> FALSE,
                   errors |-> <<ValidationError("model", "Model must be an object")>>])
    ELSE LET idErrors ==
                 IF ~Truthy(m.id) \/ TypeOf(m.id) # "string"
                 THEN <<ValidationError("id", "ID is required and must be a string")>>
                 ELSE << >>
             nameErrors ==
                 IF ~Truthy(m.name) \/ TypeOf(m.name) # "string"
                 THEN <<ValidationError("name", "Name is required and must be a string")>>
                 ELSE << >>
             first == idErrors \o nameErrors \o ImageCheck(m.image)
             markers ==
                 IF m.posmMarkers.kind # "array"
                 THEN [threw |-> FALSE,
                       errors |-> first \o <<ValidationError("posmMarkers",
                                                "POSM markers must be an array")>>]
                 ELSE MarkersCheck(m.posmMarkers.items, 1, first)
         IN  IF markers.threw
             THEN Thrown(Err("TypeError", "Cannot read properties of undefined", ""))
             ELSE IF Len(markers.errors) > 0
                  THEN Returned([valid |-> FALSE, errors |-> markers.errors])
                  ELSE Returned([valid |-> TRUE, data |-> m])

\* ------------------------------------------------------- helper inputs
Strings(n) == UNION {[1..k -> Chars] : k \in 0..n}

Names == {<<"A", "b">>, <<"b", " ", "a">>, <<"b", "b">>}
Codes == {None, Some(<<"a", "B">>)}
Categories == {"c1", "c2", "c3"}
CategoryLists == {<< >>, <<"c1">>, <<"c1", "c2">>, <<"c3">>}

Summary(name, code, cats) == [name |-> name, code |-> code, categoryIds |-> cats]

\* A catalogue's models: every model has its own id, here its position.
WithIds(list) == [i \in 1..Len(list) |-> [id |-> i] @@ list[i]]

SearchCatalogues ==
    {WithIds(l) : l \in UNION {[1..n -> {Summary(nm, cd, << >>) : nm \in Names, cd \in Codes}]
                                : n \in 0..MaxModels}}

FilterCatalogues ==
    {WithIds(l) : l \in UNION {[1..n -> {Summary(<<"b">>, None, cl) : cl \in CategoryLists}]
                                : n \in 0..MaxModels}}

FilterLists == UNION {[1..n -> Categories] : n \in 0..MaxFilter}

\* ------------------------------------------------------- helper machine
PureInit ==
    /\ now = 0
    /\ ticks = 0
    /\ cache = << >>
    /\ ret = NoRet
    /\ lastSet = [k \in CacheKeys |-> None]
    /\ DataIdle
    /\ StoreIdle
    /\ UiIdle

\* The helpers keep no state: a run makes one call, on any of the inputs.
Search ==
    /\ pure.fn = "none"
    /\ \E query \in Strings(MaxQueryLen), models \in SearchCatalogues :
          pure' = [fn |-> "search", query |-> query, models |-> models,
                   out |-> searchModels(query, models)]
    /\ UNCHANGED <<now, ticks, cache, cacheVars, calls, requests, started, idxOk,
                   idxWrites, batch>>
    /\ UNCHANGED <<storeVars, uiVars>>

Filter ==
    /\ pure.fn = "none"
    /\ \E categoryIds \in FilterLists, models \in FilterCatalogues :
          pure' = [fn |-> "filter", categoryIds |-> categoryIds, models |-> models,
                   out |-> filterModelsByCategory(categoryIds, models)]
    /\ UNCHANGED <<now, ticks, cache, cacheVars, calls, requests, started, idxOk,
                   idxWrites, batch>>
    /\ UNCHANGED <<storeVars, uiVars>>

\* The candidates validateModel is given.
IdValues == {JsUndefined, JsString(""), JsString("m1"), JsNumber(5)}
NameValues == {JsUndefined, JsString("Shelf")}

ImageValues ==
    {[kind |-> "undefined"],
     [kind |-> "object", url |-> JsString("/i.webp"), width |-> JsNumber(800),
      height |-> JsNumber(600)],
     [kind |-> "object", url |-> JsString("/i.webp"), width |-> JsNumber(-1),
      height |-> JsNumber(600)],
     [kind |-> "object", url |-> JsUndefined, width |-> JsNumber(0),
      height |-> JsNumeral(600)]}

XValues == {JsNumber(-1), JsNumber(0), JsNumber(100), JsNumber(101), JsNumeral(150), JsUndefined}
YValues == {JsNumber(50), JsNumber(150)}

MarkerValues ==
    {[kind |-> "null"], [kind |-> "object", position |-> None]}
        \cup {[kind |-> "object", position |-> Some([x |-> x, y |-> y])] :
                x \in XValues, y \in YValues}

MarkersValues ==
    {[kind |-> "undefined"]}
        \cup {[kind |-> "array", items |-> l] :
                l \in UNION {[1..n -> MarkerValues] : n \in 0..MaxMarkers}}

Candidates ==
    {[kind |-> "null"]}
        \cup {[kind |-> "object", id |-> id, name |-> nm, image |-> img, posmMarkers |-> mk] :
                id \in IdValues, nm \in NameValues, img \in ImageValues, mk \in MarkersValues}

Validate ==
    /\ pure.fn = "none"
    /\ \E m \in Candidates :
          pure' = [fn |-> "validate", model |-> m, out |-> validateModel(m)]
    /\ UNCHANGED <<now, ticks, cache, cacheVars, calls, requests, started, idxOk,
                   idxWrites, batch>>
    /\ UNCHANGED <<storeVars, uiVars>>

PureNext ==
    \/ Search
    \/ Filter
    \/ Validate

PureSpec == PureInit /\ [][PureNext]_vars

\* ------------------------------------------------------------- claims
\* The two characters are the same letter, whatever their case.
SameLetter(c, d) == c = d \/ {c, d} = {"a", "A"} \/ {c, d} = {"b", "B"}

\* str contains part as a substring, ignoring case.
ContainsIgnoringCase(str, part) ==
    \E i \in 0..(Len(str) - Len(part)) :
        \A j \in 1..Len(part) : SameLetter(str[i + j], part[j])

\* The query without its leading and trailing white space.
Trimmed(q) ==
    LET inked == {i \in 1..Len(q) : q[i] # " "}
    IN  IF inked = {} THEN << >>
        ELSE SubSeq(q, CHOOSE i \in inked : \A j \in inked : i <= j,
                       CHOOSE i \in inked : \A j \in inked : i >= j)

\* out holds models of the catalogue, in catalogue order (a model's id is its
\* position in the catalogue).
InCatalogueOrder(out, models) ==
    /\ \A i \in 1..Len(out) : out[i].id \in 1..Len(models) /\ out[i] = models[out[i].id]
    /\ \A i, j \in 1..Len(out) : i < j => out[i].id < out[j].id

IdsOf(out) == {out[i].id : i \in 1..Len(out)}

\* C8: searchModels returns, in catalogue order, exactly the models whose
\* name or code contains the trimmed query as a case-insensitive substring;
\* for an empty or white-space-only query it returns all models, unchanged.
C8_SearchIsSubstringFilter ==
    pure.fn = "search" =>
        LET tq == Trimmed(pure.query)
            Wanted(m) ==
                \/ ContainsIgnoringCase(m.name, tq)
                \/ IsSome(m.code) /\ ContainsIgnoringCase(Val(m.code), tq)
        IN  IF tq = << >> THEN pure.out = pure.models
            ELSE /\ InCatalogueOrder(pure.out, pure.models)
                 /\ IdsOf(pure.out) = {i \in 1..Len(pure.models) : Wanted(pure.models[i])}

\* The query " A" found the second of two models, by the "a" of its name.
C8_Witness ==
    /\ pure.fn = "search"
    /\ pure.query = <<" ", "A">>
    /\ Len(pure.models) = 2
    /\ pure.models[1].name = <<"b", "b">> /\ pure.models[1].code = None
    /\ pure.models[2].name = <<"b", " ", "a">>
    /\ pure.out = <<pure.models[2]>>

Elements(list) == {list[i] : i \in 1..Len(list)}

\* C9: filterModelsByCategory returns, in catalogue order, exactly the models
\* whose categoryIds share an element with the requested ones; for an empty
\* request it returns all models.
C9_FilterIsAnyOf ==
    pure.fn = "filter" =>
        IF pure.categoryIds = << >> THEN pure.out = pure.models
        ELSE /\ InCatalogueOrder(pure.out, pure.models)
             /\ IdsOf(pure.out) =
                    {i \in 1..Len(pure.models) :
                        Elements(pure.models[i].categoryIds) \cap Elements(pure.categoryIds) # {}}

\* Filtering by c2, c3 kept the model of c1, c2 and dropped the model of c1.
C9_Witness ==
    /\ pure.fn = "filter"
    /\ pure.categoryIds = <<"c2", "c3">>
    /\ Len(pure.models) = 2
    /\ pure.models[1].categoryIds = <<"c1">>
    /\ pure.models[2].categoryIds = <<"c1", "c2">>
    /\ pure.out = <<pure.models[2]>>

\* Every marker of the candidate is an object with a position.
Positioned(m) ==
    (m.kind = "object" /\ m.posmMarkers.kind = "array") =>
        \A i \in 1..Len(m.posmMarkers.items) :
            /\ m.posmMarkers.items[i].kind = "object"
            /\ IsSome(m.posmMarkers.items[i].position)

MissingString(js) == js.t = "undefined" \/ (js.t = "string" /\ js.str = "")
PositiveNumber(js) == js.t = "number" /\ js.num > 0
InPercentRange(js) == js.t = "number" /\ js.num >= 0 /\ js.num <= 100
OutOfPercentRange(js) == js.t = "number" /\ (js.num < 0 \/ js.num > 100)

\* The fields in violation, of a candidate that is an object: a missing id or
\* name, the bad image fields, each marker coordinate outside [0,100].
ExpectedFields(m) ==
    (IF MissingString(m.id) THEN {"id"} ELSE {})
        \cup (IF MissingString(m.name) THEN {"name"} ELSE {})
        \cup (IF m.image.kind = "undefined" THEN {"image"}
              ELSE (IF MissingString(m.image.url) THEN {"image.url"} ELSE {})
                    \cup (IF ~PositiveNumber(m.image.width) THEN {"image.width"} ELSE {})
                    \cup (IF ~PositiveNumber(m.image.height) THEN {"image.height"} ELSE {}))
        \cup (IF m.posmMarkers.kind # "array" THEN {}
              ELSE UNION {
                     (IF OutOfPercentRange(Val(m.posmMarkers.items[i].position).x)
                      THEN {"posmMarkers[" \o ToString(i - 1) \o "].position.x"} ELSE {})
                     \cup
                     (IF OutOfPercentRange(Val(m.posmMarkers.items[i].position).y)
                      THEN {"posmMarkers[" \o ToString(i - 1) \o "].position.y"} ELSE {})
                     : i \in 1..Len(m.posmMarkers.items)})

\* The candidate has no violation at all.
WellFormed(m) ==
    /\ m.kind = "object"
    /\ m.id.t = "string" /\ m.id.str # ""
    /\ m.name.t = "string" /\ m.name.str # ""
    /\ m.image.kind = "object"
    /\ ~MissingString(m.image.url)
    /\ PositiveNumber(m.image.width) /\ PositiveNumber(m.image.height)
    /\ m.posmMarkers.kind = "array"
    /\ \A i \in 1..Len(m.posmMarkers.items) :
         /\ InPercentRange(Val(m.posmMarkers.items[i].position).x)
         /\ InPercentRange(Val(m.posmMarkers.items[i].position).y)

Malformed(m) ==
    IF m.kind = "object" /\ m.posmMarkers.kind = "array"
    THEN {i - 1 : i \in {j \in 1..Len(m.posmMarkers.items) :
                           \/ m.posmMarkers.items[j].kind # "object"
                           \/ ~IsSome(m.posmMarkers.items[j].position)}}
    ELSE {}

\* C11: on a candidate with a marker that has no position (or is no object)
\* validateModel raises no exception: it returns valid:false with errors that
\* hold the position violation of every such marker.
C11_MalformedMarkerReported ==
    (pure.fn = "validate" /\ Malformed(pure.model) # {}) =>
        /\ ~pure.out.threw
        /\ ~pure.out.value.valid
        /\ \A i \in Malformed(pure.model) :
              \E e \in 1..Len(pure.out.value.errors) :
                 pure.out.value.errors[e].field = "posmMarkers[" \o ToString(i) \o "].position"

\* ================================================== Session Store machine
\* localStorage outlives the page: what a page load finds under the session
\* key and under the rate-limit key was left by earlier visits, or by anything
\* else that writes the origin's storage.
StoredSessions ==
    {None, Some(EmptyText), Some(GarbageText),
     Some(JsonText(UserSession(TRUE, "t1", Some(IsoText(1))))),
     Some(JsonText(UserSession(FALSE, "t1", Some(IsoText(1)))))}

StoredCounters == {None, Some(GarbageText)}

Passwords == {DEMO_PASSWORD, "wrong"}
AdminPaths == {"/admin", "/admin/model/:id"}
SessionJumps == {1, RATE_LIMIT_WINDOW, SESSION_DURATION}

SessionInit ==
    /\ now = 0
    /\ ticks = 0
    /\ cache = << >>
    /\ ret = NoRet
    /\ lastSet = [k \in CacheKeys |-> None]
    /\ DataIdle
    /\ \E session \in StoredSessions, counter \in StoredCounters :
          storage = [EmptyStorage EXCEPT ![SESSION_KEY] = session,
                                         ![RateKey("login")] = counter]
    /\ storeRet = NoStoreRet
    /\ attempts = None
    /\ drafted = NoDrafted
    /\ UiIdle

\* Each operation flips storeRet.n, so that two calls in a row differ.
Flip == 1 - storeRet.n

FifteenMinutes == 15 * 60 * 1000

\* The login calls of the current window, as a caller counts them: a call
\* made with no counter stored, or after the window of the calls counted so
\* far has elapsed, starts a window; `clean` says that every call of the
\* window used a wrong password, `denied` that some call was ever refused.
Counted(password, out) ==
    LET wrong == password # DEMO_PASSWORD
        refused == out.threw \/ (IsSome(attempts) /\ Val(attempts).denied)
    IN  IF ~IsSome(GetItem(storage, RateKey("login")))
           \/ (IsSome(attempts) /\ now > Val(attempts).start + FifteenMinutes)
        THEN Some([start |-> now, calls |-> 1, clean |-> wrong, denied |-> refused])
        ELSE IF IsSome(attempts)
             THEN Some([start |-> Val(attempts).start, calls |-> Val(attempts).calls + 1,
                        clean |-> Val(attempts).clean /\ wrong, denied |-> refused])
             ELSE None

Login(password, token) ==
    LET res == login(storage, password, token, now)
        seen == Counted(password, res.out)
    IN  /\ IsSome(seen) => Val(seen).calls <= MaxLoginCalls
        /\ storage' = res.storage
        /\ storeRet' = [op |-> "login", n |-> Flip, password |-> password, out |-> res.out]
        /\ attempts' = seen
        /\ UNCHANGED <<now, ticks, cache, cacheVars, dataVars, drafted, uiVars>>

Logout ==
    /\ storage' = logout(storage)
    /\ storeRet' = [op |-> "logout", n |-> Flip]
    /\ UNCHANGED <<now, ticks, cache, cacheVars, dataVars, attempts, drafted, uiVars>>

GetSession ==
    /\ storage' = getSession(storage, now).storage
    /\ storeRet' = [op |-> "getSession", n |-> Flip, val |-> getSession(storage, now).ret]
    /\ UNCHANGED <<now, ticks, cache, cacheVars, dataVars, attempts, drafted, uiVars>>

IsAuthenticated ==
    /\ storage' = isAuthenticated(storage, now).storage
    /\ storeRet' = [op |-> "isAuthenticated", n |-> Flip,
                    val |-> isAuthenticated(storage, now).ret]
    /\ UNCHANGED <<now, ticks, cache, cacheVars, dataVars, attempts, drafted, uiVars>>

RefreshSession ==
    /\ storage' = refreshSession(storage, now)
    /\ storeRet' = [op |-> "refreshSession", n |-> Flip]
    /\ UNCHANGED <<now, ticks, cache, cacheVars, dataVars, attempts, drafted, uiVars>>

\* The router renders an admin route: ProtectedRoute around AdminPage.
RenderAdmin(path) ==
    /\ storeRet' = [op |-> "render", n |-> Flip, path |-> path, view |-> ProtectedRoute]
    /\ UNCHANGED <<now, ticks, cache, cacheVars, dataVars, storage, attempts, drafted, uiVars>>

SessionNext ==
    \/ \E password \in Passwords, token \in Tokens : Login(password, token)
    \/ Logout
    \/ GetSession
    \/ IsAuthenticated
    \/ RefreshSession
    \/ \E path \in AdminPaths : RenderAdmin(path)
    \/ \E d \in SessionJumps : Advance(d)

SessionSpec == SessionInit /\ [][SessionNext]_vars

\* ---------------------------------------------------- Session Store claims
TwentyFourHours == 24 * 60 * 60 * 1000

\* The step is a call of the operation `op`.
IsStoreStep(op) == storeRet'.op = op /\ storeRet'.n # storeRet.n

\* The rate-limit record stored, when one is stored and it is JSON.
CounterOf(st) ==
    LET data == st["rate_limit_login"]
    IN  IF IsSome(data) /\ Val(data).kind = "json" THEN Some(Val(data).doc) ELSE None

\* The attempts counted in the window that holds time t.
CountedAttempts(st, t) ==
    IF IsSome(CounterOf(st)) /\ t <= Val(CounterOf(st)).resetTime
    THEN Val(CounterOf(st)).attempts ELSE 0

\* The session record stored, when one is stored and it is JSON.
SessionOf(st) ==
    LET data == st["posm-catalogue-session"]
    IN  IF IsSome(data) /\ Val(data).kind = "json" THEN Some(Val(data).doc) ELSE None

\* C12: starting with no counter and with wrong passwords only, the first 5
\* login calls of a 15-minute window return false, the 6th and every later
\* call of the window raise the 'too many attempts' error, and the first call
\* after the window has elapsed is allowed again (it is call 1 of a new window).
C12_RateLimitWindow ==
    (storeRet.op = "login" /\ IsSome(attempts) /\ Val(attempts).clean) =>
        IF Val(attempts).calls <= 5
        THEN ~storeRet.out.threw /\ storeRet.out.value = FALSE
        ELSE storeRet.out.threw /\ storeRet.out.error = TooManyAttempts

\* A call was refused, the window elapsed, and the next call is allowed.
C12_Witness ==
    /\ storeRet.op = "login"
    /\ IsSome(attempts)
    /\ Val(attempts).clean /\ Val(attempts).denied /\ Val(attempts).calls = 1
    /\ now > FifteenMinutes
    /\ ~storeRet.out.threw

\* C13: with 5 attempts counted in the current window, a login call, also one
\* with the correct password, raises the 'too many attempts' error and leaves
\* the storage (session and counter) as it was.
C13_Steps ==
    (IsStoreStep("login") /\ CountedAttempts(storage, now) >= 5) =>
        /\ storeRet'.out.threw
        /\ storeRet'.out.error = TooManyAttempts
        /\ storage' = storage

C13_LimitBeforePassword == [][C13_Steps]_vars

C13_Witness ==
    /\ storeRet.op = "login"
    /\ storeRet.password = "admin123"
    /\ storeRet.out.threw
    /\ CountedAttempts(storage, now) = 5

\* C14: an allowed login with the correct password removes the counter, stores
\* a session with isAuthenticated true and expiresAt = now + 24 hours and
\* returns true; an allowed login with a wrong password returns false, leaves
\* the stored session as it was and counts the attempt (the count of the
\* current window is one higher). The counter, if one is stored, is a record.
C14_Steps ==
    (IsStoreStep("login") /\ ~storeRet'.out.threw
        /\ (IsSome(storage["rate_limit_login"]) => IsSome(CounterOf(storage)))) =>
        IF storeRet'.password = "admin123"
        THEN /\ storeRet'.out.value = TRUE
             /\ ~IsSome(storage'["rate_limit_login"])
             /\ IsSome(SessionOf(storage'))
             /\ Val(SessionOf(storage')).isAuthenticated
             /\ Val(SessionOf(storage')).expiresAt = Some(IsoText(now + TwentyFourHours))
        ELSE /\ storeRet'.out.value = FALSE
             /\ storage'["posm-catalogue-session"] = storage["posm-catalogue-session"]
             /\ CountedAttempts(storage', now) = CountedAttempts(storage, now) + 1

C14_LoginEffects == [][C14_Steps]_vars

\* A correct password after wrong ones, later than the session found at load.
C14_Witness ==
    /\ storeRet.op = "login"
    /\ ~storeRet.out.threw
    /\ storeRet.out.value = TRUE
    /\ IsSome(attempts) /\ Val(attempts).calls >= 2
    /\ ~IsSome(storage["rate_limit_login"])
    /\ now > 0
    /\ Val(SessionOf(storage)).expiresAt = Some(IsoText(now + TwentyFourHours))

\* A session record is stored, it is flagged authenticated and t <= expiresAt.
ValidSession(st, t) ==
    /\ IsSome(SessionOf(st))
    /\ Val(SessionOf(st)).isAuthenticated
    /\ IsSome(Val(SessionOf(st)).expiresAt)
    /\ t <= Val(Val(SessionOf(st)).expiresAt).ms

\* C15: isAuthenticated() returns true iff a session record is stored, flagged
\* authenticated and now <= expiresAt, and getSession() returns a session only
\* in that case.
C15_Steps ==
    /\ IsStoreStep("isAuthenticated") => (storeRet'.val <=> ValidSession(storage, now))
    /\ IsStoreStep("getSession") => (IsSome(storeRet'.val) => ValidSession(storage, now))

C15_SessionValidity == [][C15_Steps]_vars

\* The stored session has expiresAt earlier than t.
ExpiredSession(st, t) ==
    /\ IsSome(SessionOf(st))
    /\ IsSome(Val(SessionOf(st)).expiresAt)
    /\ Val(Val(SessionOf(st)).expiresAt).ms < t

\* C16: getSession() on a stored session whose expiresAt is earlier than now
\* returns absent and removes the record, and a second getSession() then
\* returns absent and changes nothing; logout() removes the record, and
\* changes nothing when none is stored.
C16_Steps ==
    /\ (IsStoreStep("getSession") /\ ExpiredSession(storage, now)) =>
          /\ storeRet'.val = None
          /\ storage' = [storage EXCEPT !["posm-catalogue-session"] = None]
          /\ getSession(storage', now').ret = None
          /\ getSession(storage', now').storage = storage'
    /\ (IsStoreStep("getSession") /\ ~IsSome(storage["posm-catalogue-session"])) =>
          storeRet'.val = None /\ storage' = storage
    /\ IsStoreStep("logout") =>
          /\ storage' = [storage EXCEPT !["posm-catalogue-session"] = None]
          /\ ~IsSome(storage["posm-catalogue-session"]) => storage' = storage

C16_ExpirySelfHeal == [][C16_Steps]_vars

\* getSession() has just removed the session a login had stored 24 hours
\* and a millisecond before.
C16_Witness ==
    /\ storeRet.op = "getSession"
    /\ storeRet.val = None
    /\ IsSome(attempts)
    /\ now > TwentyFourHours
    /\ ~IsSome(storage["posm-catalogue-session"])

\* C17: the stored session changes only through a successful login, a
\* refreshSession, or its removal; getSession() and isAuthenticated() leave a
\* valid session as it is; refreshSession() on a valid session sets expiresAt
\* to now + 24 hours and keeps the other fields, and writes nothing when no
\* session is stored.
C17_Steps ==
    /\ (storage'["posm-catalogue-session"] # storage["posm-catalogue-session"]) =>
          \/ IsStoreStep("login") /\ ~storeRet'.out.threw /\ storeRet'.out.value = TRUE
          \/ IsStoreStep("refreshSession")
          \/ ~IsSome(storage'["posm-catalogue-session"])
    /\ ((IsStoreStep("getSession") \/ IsStoreStep("isAuthenticated"))
           /\ ValidSession(storage, now)) => storage' = storage
    /\ (IsStoreStep("refreshSession") /\ ValidSession(storage, now)) =>
          storage' = [storage EXCEPT !["posm-catalogue-session"] =
                         Some(JsonText([Val(SessionOf(storage)) EXCEPT
                                 !.expiresAt = Some(IsoText(now + TwentyFourHours))]))]
    /\ (IsStoreStep("refreshSession") /\ ~IsSome(storage["posm-catalogue-session"])) =>
          storage' = storage

C17_AbsoluteLifetime == [][C17_Steps]_vars

\* A session minted with token t2 has been refreshed later on.
C17_Witness ==
    /\ storeRet.op = "refreshSession"
    /\ now > 0
    /\ IsSome(attempts)
    /\ ValidSession(storage, now)
    /\ Val(SessionOf(storage)).sessionToken = "t2"
    /\ Val(SessionOf(storage)).expiresAt = Some(IsoText(now + TwentyFourHours))

\* C18: the children of ProtectedRoute are rendered only if isAuthenticated()
\* holds for the stored session.
C18_Steps ==
    (IsStoreStep("render") /\ storeRet'.view = "children") =>
        isAuthenticated(storage, now).ret

C18_AdminGated == [][C18_Steps]_vars

\* ==================================================== Draft Store machine
\* The drafts saved: models with and without the optional description, and
\* marker arrays, the empty one included. Positions are what the editor got
\* from the pointer and may lie outside the image.
DraftMarkers == {<< >>,
                 <<POSMMarker("marker-1", Coordinates(150, -5)),
                   POSMMarker("marker-2", Coordinates(0, 100))>>}
DraftModels == {ProductModel("p", None, << >>),
                ProductModel("p", Some("text"),
                             <<POSMMarker("marker-1", Coordinates(10, 20))>>)}

\* What an earlier page load, or anything else writing to the origin's
\* localStorage, left under the draft keys of model "a".
StoredDrafts == {None, Some(EmptyText), Some(GarbageText)}
StoredMarkerDrafts == {None, Some(GarbageText)}

\* The model the marker editor is open on.
MarkerDraftIds == {"a"}
DraftJumps == {1}

DraftInit ==
    /\ now = 0
    /\ ticks = 0
    /\ cache = << >>
    /\ ret = NoRet
    /\ lastSet = [k \in CacheKeys |-> None]
    /\ DataIdle
    /\ \E draft \in StoredDrafts, markerDraft \in StoredMarkerDrafts :
          /\ storage = [EmptyStorage EXCEPT ![DraftKey("a")] = draft,
                                            ![MarkerDraftKey("a")] = markerDraft]
          /\ drafted = [NoDrafted EXCEPT !["a"] =
                            IF IsSome(draft) THEN UnknownDraft ELSE NoDraft]
    /\ storeRet = NoStoreRet
    /\ attempts = None
    /\ UiIdle

SaveDraft(modelId, draftData, room) ==
    LET res == saveDraft(storage, modelId, draftData, now, room)
    IN  /\ storage' = res.storage
        /\ storeRet' = [op |-> "saveDraft", n |-> Flip, m |-> modelId,
                        d |-> draftData, out |-> res.out]
        /\ drafted' = [drafted EXCEPT ![modelId] =
                           IF res.out.threw THEN UnknownDraft ELSE SavedDraft(draftData)]
        /\ UNCHANGED <<now, ticks, cache, cacheVars, dataVars, attempts, uiVars>>

LoadDraft(modelId) ==
    LET res == loadDraft(storage, modelId)
    IN  /\ storage' = res.storage
        /\ storeRet' = [op |-> "loadDraft", n |-> Flip, m |-> modelId, out |-> res.out]
        /\ UNCHANGED <<now, ticks, cache, cacheVars, dataVars, attempts, drafted, uiVars>>

ClearDraft(modelId) ==
    /\ storage' = clearDraft(storage, modelId)
    /\ storeRet' = [op |-> "clearDraft", n |-> Flip, m |-> modelId]
    /\ drafted' = [drafted EXCEPT ![modelId] = NoDraft]
    /\ UNCHANGED <<now, ticks, cache, cacheVars, dataVars, attempts, uiVars>>

HasDraft(modelId) ==
    /\ storeRet' = [op |-> "hasDraft", n |-> Flip, m |-> modelId,
                    val |-> hasDraft(storage, modelId)]
    /\ UNCHANGED <<now, ticks, cache, cacheVars, dataVars, storage, attempts, drafted, uiVars>>

GetDraftTimestamp(modelId) ==
    /\ storeRet' = [op |-> "getDraftTimestamp", n |-> Flip, m |-> modelId,
                    val |-> getDraftTimestamp(storage, modelId)]
    /\ UNCHANGED <<now, ticks, cache, cacheVars, dataVars, storage, attempts, drafted, uiVars>>

GetAllDraftIds ==
    /\ storeRet' = [op |-> "getAllDraftIds", n |-> Flip, ids |-> getAllDraftIds(storage)]
    /\ UNCHANGED <<now, ticks, cache, cacheVars, dataVars, storage, attempts, drafted, uiVars>>

ClearAllDrafts ==
    /\ storage' = clearAllDrafts(storage)
    /\ storeRet' = [op |-> "clearAllDrafts", n |-> Flip]
    /\ drafted' = NoDrafted
    /\ UNCHANGED <<now, ticks, cache, cacheVars, dataVars, attempts, uiVars>>

SaveMarkerDraft(modelId, markers, room) ==
    LET res == saveMarkerDraft(storage, modelId, markers, room)
    IN  /\ storage' = res.storage
        /\ storeRet' = [op |-> "saveMarkerDraft", n |-> Flip, m |-> modelId,
                        d |-> markers, out |-> res.out]
        /\ UNCHANGED <<now, ticks, cache, cacheVars, dataVars, attempts, drafted, uiVars>>

LoadMarkerDraft(modelId) ==
    LET res == loadMarkerDraft(storage, modelId)
    IN  /\ storage' = res.storage
        /\ storeRet' = [op |-> "loadMarkerDraft", n |-> Flip, m |-> modelId,
                        out |-> res.out]
        /\ UNCHANGED <<now, ticks, cache, cacheVars, dataVars, attempts, drafted, uiVars>>

HasMarkerDraft(modelId) ==
    /\ storeRet' = [op |-> "hasMarkerDraft", n |-> Flip, m |-> modelId,
                    val |-> hasMarkerDraft(storage, modelId)]
    /\ UNCHANGED <<now, ticks, cache, cacheVars, dataVars, storage, attempts, drafted, uiVars>>

ClearMarkerDraft(modelId) ==
    /\ storage' = clearMarkerDraft(storage, modelId)
    /\ storeRet' = [op |-> "clearMarkerDraft", n |-> Flip, m |-> modelId]
    /\ UNCHANGED <<now, ticks, cache, cacheVars, dataVars, attempts, drafted, uiVars>>

DraftNext ==
    \/ \E m \in DraftIds, d \in DraftModels, room \in Rooms : SaveDraft(m, d, room)
    \/ \E m \in DraftIds : LoadDraft(m)
    \/ \E m \in DraftIds : ClearDraft(m)
    \/ \E m \in DraftIds : HasDraft(m)
    \/ \E m \in DraftIds : GetDraftTimestamp(m)
    \/ GetAllDraftIds
    \/ ClearAllDrafts
    \/ \E m \in MarkerDraftIds, d \in DraftMarkers, room \in Rooms : SaveMarkerDraft(m, d, room)
    \/ \E m \in MarkerDraftIds : LoadMarkerDraft(m)
    \/ \E m \in MarkerDraftIds : HasMarkerDraft(m)
    \/ \E m \in MarkerDraftIds : ClearMarkerDraft(m)
    \/ \E d \in DraftJumps : Advance(d)

DraftSpec == DraftInit /\ [][DraftNext]_vars

\* ------------------------------------------------------- Draft Store claims
\* The call before the step was op on model id m, and it returned normally.
PreviousCall(op, m) ==
    /\ storeRet.op = op
    /\ storeRet.m = m
    /\ (op \in {"saveDraft", "saveMarkerDraft"} => ~storeRet.out.threw)

\* C19: a saveDraft(m, d) that returned, followed by loadDraft(m), gives a
\* draft equal to d, and followed by hasDraft(m) gives true; clearDraft(m)
\* followed by loadDraft(m) gives null, by hasDraft(m) false and by
\* getDraftTimestamp(m) null. The marker-draft helpers of usePOSMMarkers behave
\* the same (they keep no timestamp).
C19_Steps ==
    /\ IsStoreStep("loadDraft") =>
          /\ PreviousCall("saveDraft", storeRet'.m) =>
                storeRet'.out = Returned(Some(storeRet.d))
          /\ PreviousCall("clearDraft", storeRet'.m) =>
                storeRet'.out = Returned(None)
    /\ IsStoreStep("hasDraft") =>
          /\ PreviousCall("saveDraft", storeRet'.m) => storeRet'.val
          /\ PreviousCall("clearDraft", storeRet'.m) => ~storeRet'.val
    /\ IsStoreStep("getDraftTimestamp") =>
          (PreviousCall("clearDraft", storeRet'.m) => storeRet'.val = None)
    /\ IsStoreStep("saveDraft") /\ ~storeRet'.out.threw =>
          /\ loadDraft(storage', storeRet'.m).out = Returned(Some(storeRet'.d))
          /\ hasDraft(storage', storeRet'.m)
    /\ IsStoreStep("clearDraft") =>
          /\ loadDraft(storage', storeRet'.m).out = Returned(None)
          /\ ~hasDraft(storage', storeRet'.m)
          /\ getDraftTimestamp(storage', storeRet'.m) = None
    /\ IsStoreStep("loadMarkerDraft") =>
          /\ PreviousCall("saveMarkerDraft", storeRet'.m) =>
                storeRet'.out = Returned(Some(storeRet.d))
          /\ PreviousCall("clearMarkerDraft", storeRet'.m) =>
                storeRet'.out = Returned(None)
    /\ IsStoreStep("hasMarkerDraft") =>
          /\ PreviousCall("saveMarkerDraft", storeRet'.m) => storeRet'.val
          /\ PreviousCall("clearMarkerDraft", storeRet'.m) => ~storeRet'.val
    /\ IsStoreStep("clearMarkerDraft") =>
          /\ loadMarkerDraft(storage', storeRet'.m).out = Returned(None)
          /\ ~hasMarkerDraft(storage', storeRet'.m)

C19_DraftRoundTrip == [][C19_Steps]_vars

\* loadDraft has just returned the draft saved for the model whose draft key
\* is the timestamp key of another model, and that model holds a draft too.
C19_Witness ==
    /\ storeRet.op = "loadDraft"
    /\ storeRet.m = "a-timestamp"
    /\ storeRet.out = Returned(Some(ProductModel("p", Some("text"),
                          <<POSMMarker("marker-1", Coordinates(10, 20))>>)))
    /\ getDraftTimestamp(storage, "a-timestamp") = Some(ToISOString(now))
    /\ hasDraft(storage, "a")

\* The value stored under the draft key of m is not one JSON.parse accepts.
CorruptDraft(st, key) ==
    /\ IsSome(GetItem(st, key))
    /\ JsonParse(Val(GetItem(st, key))).threw

\* C20: loadDraft(m) never raises; on a value under the draft key of m that
\* cannot be parsed it returns null, the result it gives when nothing is
\* stored under that key, and it leaves localStorage as it was. loadMarkerDraft
\* does the same for its key.
C20_Steps ==
    /\ IsStoreStep("loadDraft") =>
          /\ ~storeRet'.out.threw
          /\ storage' = storage
          /\ CorruptDraft(storage, DraftKey(storeRet'.m)) =>
                /\ storeRet'.out = Returned(None)
                /\ storeRet'.out =
                       loadDraft(RemoveItem(storage, DraftKey(storeRet'.m)), storeRet'.m).out
    /\ IsStoreStep("loadMarkerDraft") =>
          /\ ~storeRet'.out.threw
          /\ storage' = storage
          /\ CorruptDraft(storage, MarkerDraftKey(storeRet'.m)) =>
                /\ storeRet'.out = Returned(None)
                /\ storeRet'.out =
                       loadMarkerDraft(RemoveItem(storage, MarkerDraftKey(storeRet'.m)),
                                       storeRet'.m).out

C20_LoadDraftNeverRaises == [][C20_Steps]_vars

\* loadDraft has just run on the draft key that saveDraft of another model
\* filled with its timestamp.
C20_Witness ==
    /\ storeRet.op = "loadDraft"
    /\ storeRet.m = "a-timestamp"
    /\ GetItem(storage, DraftKey("a-timestamp")) = Some(ToISOString(now))
    /\ CorruptDraft(storage, DraftKey("a-timestamp"))
    /\ storeRet.out = Returned(None)

\* The ids whose last saveDraft returned and was not followed by a clear.
HeldIds == {m \in DraftIds : drafted[m].held = "yes"}

\* C21: after any saveDraft, clearDraft and clearAllDrafts calls, also for ids
\* ending in "-timestamp", getAllDraftIds() is the set of the ids holding a
\* draft (an id whose save failed or that had something stored at page load is
\* left open), and it is empty after clearAllDrafts().
C21_DraftIdsExact ==
    /\ \A m \in DraftIds :
          /\ drafted[m].held = "yes" => m \in getAllDraftIds(storage)
          /\ drafted[m].held = "no" => m \notin getAllDraftIds(storage)
    /\ storeRet.op = "getAllDraftIds" => HeldIds \subseteq storeRet.ids
    /\ storeRet.op = "clearAllDrafts" => getAllDraftIds(storage) = {}

\* C22: a draft saved for m stays what loadDraft(m) returns until saveDraft(m),
\* clearDraft(m) or clearAllDrafts is called, whatever is called for other ids
\* and however much time passes.
C22_DraftPersists ==
    \A m \in DraftIds :
        drafted[m].held = "yes" =>
            loadDraft(storage, m).out = Returned(Some(drafted[m].d))

\* The rate-limit record of the login is a text JSON.parse rejects.
UnparsableCounter(st) ==
    /\ ~FalsyText(GetItem(st, RateKey("login")))
    /\ JsonParse(Val(GetItem(st, RateKey("login")))).threw

\* C29: while the stored rate-limit record cannot be parsed, every rateLimit
\* call returns true and leaves the record as it is, so the call after it is
\* allowed as well, without bound; no login is refused, and the record stays
\* until clearRateLimit removes it (a login with the right password).
C29_Steps ==
    UnparsableCounter(storage) =>
        /\ rateLimit(storage, "login", MAX_LOGIN_ATTEMPTS, RATE_LIMIT_WINDOW, now)
               = [ret |-> TRUE, storage |-> storage]
        /\ IsStoreStep("login") =>
              /\ ~storeRet'.out.threw
              /\ IF storeRet'.password = DEMO_PASSWORD
                 THEN storage' = SetItem(clearRateLimit(storage, "login"), SESSION_KEY,
                                         Val(GetItem(storage', SESSION_KEY)))
                 ELSE /\ storage' = storage
                      /\ storeRet'.out = Returned(FALSE)
        /\ ~(IsStoreStep("login") /\ storeRet'.password = DEMO_PASSWORD) =>
              /\ GetItem(storage', RateKey("login")) = GetItem(storage, RateKey("login"))
              /\ rateLimit(storage', "login", MAX_LOGIN_ATTEMPTS, RATE_LIMIT_WINDOW, now').ret

C29_RateLimitFailsOpen == [][C29_Steps]_vars

\* A login with a wrong password was let through, more than a window after the
\* page was loaded, and the unparsable record is still stored.
C29_Witness ==
    /\ storeRet.op = "login"
    /\ storeRet.out = Returned(FALSE)
    /\ UnparsableCounter(storage)
    /\ now > RATE_LIMIT_WINDOW

\* ------------------------------------------------- overlapping loadModel
\* The loadModel call in slot s awaits a response for id.
InFlight(s, id) ==
    calls[s].op = "model" /\ calls[s].id = id /\ calls[s].pc \in {"fetch", "json"}

\* The loadModel call in slot s has returned the document it fetched for id.
Fetched(cs, s, id) ==
    /\ cs[s].op = "model" /\ cs[s].id = id /\ cs[s].pc = "done"
    /\ ~cs[s].hit /\ ~Val(cs[s].out).threw

\* C26: a loadModel(id) call that starts while another one for the same id,
\* not cached, is in flight misses the cache and issues a request of its own;
\* when the later of two such calls completes successfully the cache holds
\* one entry for the id, the response of that call, and each call has
\* returned the response of its own request.
C26_Steps ==
    \A id \in ModelIds :
        /\ (IsStart /\ calls'[NextSlot].id = id /\ (\E r \in Slots : InFlight(r, id))
                /\ ~IsSome(CacheGetValue(cache, ModelKey(id), now))) =>
              /\ ~calls'[NextSlot].hit
              /\ calls'[NextSlot].pc = "fetch"
              /\ requests'[ModelUrl(id)] = requests[ModelUrl(id)] + 1
        /\ \A s, r \in Slots :
              (r # s /\ InFlight(s, id) /\ Fetched(calls, r, id) /\ Fetched(calls', s, id)) =>
                  /\ Cardinality(MapIdx(cache', ModelKey(id))) = 1
                  /\ Val(MapGet(cache', ModelKey(id))).data = Val(calls'[s].body)
                  /\ Val(calls'[s].out) = Returned(Val(calls'[s].body))
                  /\ Val(calls'[r].out) = Returned(Val(calls'[r].body))

C26_OverlappingLoads == [][C26_Steps]_vars

\* Two calls for "a" have overlapped and returned different documents; two
\* requests were issued, and the cache holds the document of the call that
\* was started first and completed last.
C26_Witness ==
    /\ Fetched(calls, 1, "a") /\ Fetched(calls, 2, "a")
    /\ Val(calls[1].body) # Val(calls[2].body)
    /\ requests[ModelUrl("a")] = 2
    /\ Cardinality(MapIdx(cache, ModelKey("a"))) = 1
    /\ Val(MapGet(cache, ModelKey("a"))).data = Val(calls[1].body)
    /\ Val(calls[2].out) = Returned(Val(calls[2].body))

\* ==================================================== useModelData machine
\* useModelData(modelId): model, loading and error are its state; `awaiting`
\* holds the slots of the loadModel calls whose `await` a fetchModel
\* invocation is suspended on.
ViewIds == {None} \cup {Some(id) : id \in ModelIds}

\* The hook is mounted with modelId null: fetchModel has reset the state.
ViewMounted ==
    [mounted |-> TRUE, modelId |-> None, model |-> None, loading |-> FALSE,
     error |-> None, awaiting |-> {}]

ViewInit ==
    /\ now = 0
    /\ ticks = 0
    /\ cache = << >>
    /\ ret = NoRet
    /\ lastSet = [k \in CacheKeys |-> None]
    /\ DataIdle
    /\ StoreIdle
    /\ hook = Unmounted
    /\ bar = Unmounted
    /\ view = ViewMounted

\* A continuation of an `await` that has settled runs before any other task.
NoneToResume == \A s \in view.awaiting : calls[s].pc # "done"

\* fetchModel() for the modelId of the render it was created in, up to its
\* await: with no id it resets the state, otherwise it sets loading, clears
\* the error and calls loadModel.
FetchModel(modelId) ==
    IF ~IsSome(modelId)
    THEN /\ view' = [view EXCEPT !.modelId = modelId, !.model = None,
                                  !.loading = FALSE, !.error = None]
         /\ UNCHANGED <<cache, calls, requests, started>>
    ELSE /\ started < MaxStarts
         /\ FreeSlots # {}
         /\ LET b == ModelBegin(cache, requests, Val(modelId), now)
            IN  /\ cache' = b.cache
                /\ requests' = b.requests
                /\ calls' = [Taken EXCEPT ![NextSlot] = b.call]
         /\ started' = started + 1
         /\ view' = [view EXCEPT !.modelId = modelId, !.loading = TRUE, !.error = None,
                                  !.awaiting = @ \cup {NextSlot}]

\* The component is rendered with another modelId: the effect calls fetchModel.
SetModelId(modelId) ==
    /\ NoneToResume
    /\ modelId # view.modelId
    /\ FetchModel(modelId)
    /\ UNCHANGED <<now, ticks, cacheVars, idxOk, idxWrites, batch, pure, storeVars, hook, bar>>

\* refetch(): fetchModel is called again for the current modelId.
Refetch ==
    /\ NoneToResume
    /\ FetchModel(view.modelId)
    /\ UNCHANGED <<now, ticks, cacheVars, idxOk, idxWrites, batch, pure, storeVars, hook, bar>>

\* fetchModel resumes after `await loadModel(modelId)`: setModel(data), or the
\* catch block, then the finally block.
ViewResume(s) ==
    /\ s \in view.awaiting
    /\ calls[s].pc = "done"
    /\ LET out == Val(calls[s].out)
       IN  view' = [view EXCEPT
                       !.model = IF out.threw THEN None ELSE Some(out.value),
                       !.error = IF out.threw THEN Some(out.error) ELSE @,
                       !.loading = FALSE,
                       !.awaiting = @ \ {s}]
    /\ UNCHANGED <<now, ticks, cache, cacheVars, dataVars, storeVars, hook, bar>>

ViewNext ==
    \/ \E modelId \in ViewIds : SetModelId(modelId)
    \/ Refetch
    \/ \E s \in Slots : ViewResume(s)
    \/ NoneToResume /\ \E s \in Slots, r \in FetchOutcomes : ModelFetchSettle(s, r)
    \/ NoneToResume /\ \E s \in Slots : \E body \in ModelBodies(calls[s].id) :
                           ModelJsonSettle(s, body)

ViewSpec == ViewInit /\ [][ViewNext]_vars

\* C27: once every loadModel call the hook awaits has settled, model is the
\* document of the current modelId, or null with an error (null alone when no
\* id is selected); and loading is false only when no call is awaited.
C27_ModelIsCurrent ==
    /\ view.awaiting = {} =>
          IF IsSome(view.modelId)
          THEN IF IsSome(view.model)
               THEN Val(view.model).id = view.modelId
               ELSE IsSome(view.error)
          ELSE ~IsSome(view.model)
    /\ ~view.loading => view.awaiting = {}

\* ======================================================= SearchBar machine
\* SearchBar is rendered by the catalogue page with value={searchQuery} and
\* onChange={setSearchQuery}: onChange(v) makes v the value prop, and the
\* effect on [value] copies a changed prop into localValue. Strings are
\* sequences of characters.
BarSuggestions == <<<<"A", "b">>, <<"b", "a">>>>
BarTyped == {<< >>, <<"a">>, <<"A", "b">>}
BarKeys == {"ArrowDown", "ArrowUp", "Enter", "Escape"}

\* `filteredSuggestions[activeSuggestion]` beyond the end of the array.
UndefinedValue == <<"undefined">>

\* debounceTimerRef holds the id of the timeout created last; every timeout
\* created before it was cleared by debouncedOnChange or has fired, so at
\* most one is pending: `timer` is the newValue its callback will deliver.
BarMounted ==
    [mounted |-> TRUE, value |-> << >>, localValue |-> << >>, timer |-> None,
     isFocused |-> FALSE, showSuggestions |-> FALSE, activeSuggestion |-> -1,
     userSet |-> None]

BarInit ==
    /\ now = 0
    /\ ticks = 0
    /\ cache = << >>
    /\ ret = NoRet
    /\ lastSet = [k \in CacheKeys |-> None]
    /\ DataIdle
    /\ StoreIdle
    /\ hook = Unmounted
    /\ view = Unmounted
    /\ bar = BarMounted

\* filteredSuggestions of a render.
FilteredSuggestions(b) ==
    LET all == ArrayFilter(BarSuggestions,
                   [i \in 1..Len(BarSuggestions) |->
                       Includes(ToLowerCase(BarSuggestions[i]), ToLowerCase(b.localValue))])
    IN  SubSeq(all, 1, IF Len(all) < 8 THEN Len(all) ELSE 8)

\* onChange(v), called after the handler's own state updates.
BarOnChange(b, v) ==
    [b EXCEPT !.value = v, !.localValue = IF v # b.value THEN v ELSE @]

\* debouncedOnChange(newValue): the pending timeout is cleared, a new one is set.
BarDebounce(b, newValue) == [b EXCEPT !.timer = Some(newValue)]

\* The effect on [isFocused, filteredSuggestions.length], `was` being the
\* render before the handler ran.
BarEffects(was, b) ==
    IF /\ (b.isFocused # was.isFocused
              \/ Len(FilteredSuggestions(b)) # Len(FilteredSuggestions(was)))
       /\ b.isFocused
       /\ Len(FilteredSuggestions(b)) > 0
    THEN [b EXCEPT !.showSuggestions = TRUE]
    ELSE b

\* The component renders: localValue.toLowerCase() throws when localValue is undefined.
BarAlive == bar.localValue # UndefinedValue

BarStep(b) ==
    /\ BarAlive
    /\ bar' = BarEffects(bar, b)
    /\ UNCHANGED <<now, ticks, cache, cacheVars, dataVars, storeVars, hook, view>>

\* onFocus and onBlur of the input.
BarFocus ==
    /\ ~bar.isFocused
    /\ BarStep([bar EXCEPT !.isFocused = TRUE])

BarBlur ==
    /\ bar.isFocused
    /\ BarStep([bar EXCEPT !.isFocused = FALSE])

\* handleInputChange: the user edits the text to newValue.
BarType(newValue) ==
    /\ newValue # bar.localValue
    /\ BarStep(BarDebounce([bar EXCEPT !.localValue = newValue, !.activeSuggestion = -1,
                                      !.userSet = Some(newValue)],
                           newValue))

\* handleKeyDown.
BarKeyDown(key) ==
    LET filtered == FilteredSuggestions(bar)
        active == bar.activeSuggestion
        suggestion == IF active < Len(filtered) THEN filtered[active + 1] ELSE UndefinedValue
    IN  CASE key = "ArrowDown" ->
                 BarStep([bar EXCEPT !.activeSuggestion =
                             IF active < Len(filtered) - 1 THEN active + 1 ELSE active])
          [] key = "ArrowUp" ->
                 BarStep([bar EXCEPT !.activeSuggestion =
                             IF active > -1 THEN active - 1 ELSE -1])
          [] key = "Enter" ->
                 /\ active > -1
                 /\ BarStep(BarOnChange([bar EXCEPT !.localValue = suggestion,
                                                    !.showSuggestions = FALSE,
                                                    !.userSet = Some(suggestion)],
                                        suggestion))
          [] OTHER ->
                 BarStep([bar EXCEPT !.showSuggestions = FALSE, !.activeSuggestion = -1])

\* handleClear: the button is rendered while localValue is not empty.
BarClear ==
    /\ bar.localValue # << >>
    /\ BarStep(BarOnChange([bar EXCEPT !.localValue = << >>, !.activeSuggestion = -1,
                                      !.userSet = Some(<< >>)],
                           << >>))

\* The dropdown is rendered.
BarDropdown == bar.showSuggestions /\ Len(FilteredSuggestions(bar)) > 0

\* handleSuggestionClick on entry i of the dropdown.
BarSuggestionClick(i) ==
    /\ BarDropdown
    /\ i \in 1..Len(FilteredSuggestions(bar))
    /\ LET suggestion == FilteredSuggestions(bar)[i]
       IN  BarStep(BarOnChange([bar EXCEPT !.localValue = suggestion,
                                          !.showSuggestions = FALSE,
                                          !.activeSuggestion = -1,
                                          !.userSet = Some(suggestion)],
                               suggestion))

\* onMouseEnter on entry i of the dropdown.
BarMouseEnter(i) ==
    /\ BarDropdown
    /\ i \in 1..Len(FilteredSuggestions(bar))
    /\ BarStep([bar EXCEPT !.activeSuggestion = i - 1])

\* The "search for current input" button of the dropdown.
BarSearchCurrent ==
    /\ BarDropdown
    /\ bar.localValue # << >>
    /\ BarStep(BarOnChange([bar EXCEPT !.showSuggestions = FALSE,
                                      !.userSet = Some(bar.localValue)],
                           bar.localValue))

\* mousedown outside the input.
BarClickOutside ==
    /\ bar.mounted
    /\ BarStep([bar EXCEPT !.showSuggestions = FALSE])

\* The debounce timeout fires: onChange(newValue).
BarTimerFires ==
    /\ IsSome(bar.timer)
    /\ BarStep(BarOnChange([bar EXCEPT !.timer = None], Val(bar.timer)))

BarNext ==
    \/ BarFocus
    \/ BarBlur
    \/ \E newValue \in BarTyped : BarType(newValue)
    \/ \E key \in BarKeys : BarKeyDown(key)
    \/ BarClear
    \/ \E i \in 1..Len(BarSuggestions) : BarSuggestionClick(i)
    \/ \E i \in 1..Len(BarSuggestions) : BarMouseEnter(i)
    \/ BarSearchCurrent
    \/ BarClickOutside
    \/ BarTimerFires

BarSpec == BarInit /\ [][BarNext]_vars

\* C28: once no debounce timeout is pending, the value delivered to onChange
\* last (the value prop) is the value the user set last: a Clear or a picked
\* suggestion is not followed by an onChange call with the text typed before.
C28_LastValueWins ==
    (~IsSome(bar.timer) /\ IsSome(bar.userSet)) => bar.value = Val(bar.userSet)

\* ================================================== usePOSMMarkers machine
\* usePOSMMarkers(modelId, initialMarkers), initialMarkers being an array that
\* stays the same between renders. `hook` holds the state (markers,
\* hasUnsavedChanges), the refs (markerIdCounter, lastSaveRef,
\* autoSaveTimerRef) and the pending timeouts, each with the markers its
\* saveDraftMarkers closure will save. selectedMarkerId and isLoading are
\* left out: no effect depends on them.
AUTO_SAVE_DELAY == 30 * 1000
HookModelId == "a"
NewMarkerInfo == "New POSM Marker"
HookInfos == {"Edited"}
HookPositions == {Coordinates(10, 20), Coordinates(150, -5)}
HookRooms == {0, 1}
HookJumps == {1, AUTO_SAVE_DELAY}
HookTimerIds == {1, 2}

EditedMarker(id, position, info) == [id |-> id, position |-> position, info |-> info]

\* `marker-${String(n).padStart(3, '0')}`
MarkerId(n) ==
    IF n < 10 THEN "marker-00" \o ToString(n)
    ELSE IF n < 100 THEN "marker-0" \o ToString(n)
    ELSE "marker-" \o ToString(n)

HookMarkerIds == {MarkerId(n) : n \in 1..MaxMarkers}

\* clearTimeout(autoSaveTimerRef.current) when the ref is set.
ClearAutoSaveTimer(h) ==
    IF IsSome(h.timerRef)
    THEN [h EXCEPT !.timers = {t \in @ : t.id # Val(h.timerRef)}]
    ELSE h

\* setTimeout returns an id no pending timeout has.
FreshTimerId(h) ==
    CHOOSE n \in 1..(Cardinality(h.timers) + 1) :
        /\ \A t \in h.timers : t.id # n
        /\ \A k \in 1..(n - 1) : \E t \in h.timers : t.id = k

\* The auto-save effect re-runs at time t: the cleanup of its last run, then
\* its body.
AutoSaveEffect(h, t) ==
    LET cleaned == ClearAutoSaveTimer(h)
        id == FreshTimerId(cleaned)
    IN  IF cleaned.hasUnsavedChanges
        THEN [cleaned EXCEPT
                 !.timers = @ \cup {[id |-> id, due |-> t + AUTO_SAVE_DELAY,
                                     markers |-> cleaned.markers]},
                 !.timerRef = Some(id)]
        ELSE cleaned

\* The "track unsaved changes" effect: what it passes to setHasUnsavedChanges.
\* The markers are built with the same property order, so their
\* serializations differ exactly when they do.
UnsavedNow(h) == JsonStringify(h.markers) # JsonStringify(h.lastSave)

\* setMarkers was called (the array is always a new one): the render runs
\* the auto-save effect and the tracking effect, and when the latter changes
\* hasUnsavedChanges the next render runs the auto-save effect again.
AfterMarkers(h, t) ==
    LET first == AutoSaveEffect(h, t)
        flag == UnsavedNow(first)
    IN  IF flag = first.hasUnsavedChanges THEN first
        ELSE AutoSaveEffect([first EXCEPT !.hasUnsavedChanges = flag], t)

\* setHasUnsavedChanges(flag) was called by a handler: the auto-save effect
\* re-runs when the state changed.
AfterFlag(h, flag, t) ==
    IF flag = h.hasUnsavedChanges THEN h
    ELSE AutoSaveEffect([h EXCEPT !.hasUnsavedChanges = flag], t)

\* addMarker(position).
addMarker(h, position, t) ==
    LET newMarker == EditedMarker(MarkerId(h.counter), position, NewMarkerInfo)
    IN  AfterMarkers([h EXCEPT !.markers = Append(@, newMarker), !.counter = @ + 1], t)

\* updateMarkerPosition(markerId, position) and updateMarkerInfo(markerId, info).
updateMarkerPosition(h, markerId, position, t) ==
    AfterMarkers([h EXCEPT !.markers =
        [i \in 1..Len(@) |-> IF @[i].id = markerId
                             THEN [@[i] EXCEPT !.position = position] ELSE @[i]]], t)

updateMarkerInfo(h, markerId, info, t) ==
    AfterMarkers([h EXCEPT !.markers =
        [i \in 1..Len(@) |-> IF @[i].id = markerId
                             THEN [@[i] EXCEPT !.info = info] ELSE @[i]]], t)

\* deleteMarker(markerId).
deleteMarker(h, markerId, t) ==
    AfterMarkers([h EXCEPT !.markers = SelectSeq(@, LAMBDA marker : marker.id # markerId)], t)

\* saveDraftMarkers() of the render whose markers are `markers`: the hook and
\* the storage it leaves. An exception of saveMarkerDraft is caught and logged.
saveDraftMarkers(h, st, markers, room, t) ==
    LET saved == saveMarkerDraft(st, HookModelId, markers, room)
    IN  IF saved.out.threw THEN [hook |-> h, storage |-> st]
        ELSE [hook |-> AfterFlag([h EXCEPT !.lastSave = markers], FALSE, t),
              storage |-> saved.storage]

\* loadDraftMarkers(): a draft that was read replaces the markers.
loadDraftMarkers(h, st, t) ==
    LET draftMarkers == loadMarkerDraft(st, HookModelId).out.value
    IN  IF IsSome(draftMarkers)
        THEN AfterMarkers([h EXCEPT !.markers = Val(draftMarkers),
                                    !.lastSave = Val(draftMarkers)], t)
        ELSE h

\* clearDraftMarkers().
clearDraftMarkers(h, st, t) ==
    [hook |-> AfterFlag(h, FALSE, t), storage |-> clearMarkerDraft(st, HookModelId)]

\* The hook after its first render and effects, at time 0: the markers are
\* the initial ones or, when a draft is stored, what loadDraftMarkers read.
HookMounted(initialMarkers, st) ==
    LET fresh == [mounted |-> TRUE, markers |-> initialMarkers,
                  hasUnsavedChanges |-> FALSE, counter |-> 1,
                  lastSave |-> initialMarkers, timers |-> {}, timerRef |-> None]
    IN  IF hasMarkerDraft(st, HookModelId) THEN loadDraftMarkers(fresh, st, 0) ELSE fresh

\* The markers of the model document, and the draft an earlier visit left.
InitialMarkers == {<< >>, <<EditedMarker(MarkerId(1), Coordinates(10, 20), NewMarkerInfo)>>}
HookStoredDrafts ==
    {None, Some(JsonStringify(<<EditedMarker(MarkerId(1), Coordinates(10, 20), "Edited")>>))}

HookInit ==
    /\ now = 0
    /\ ticks = 0
    /\ cache = << >>
    /\ ret = NoRet
    /\ lastSet = [k \in CacheKeys |-> None]
    /\ DataIdle
    /\ storeRet = NoStoreRet
    /\ attempts = None
    /\ drafted = NoDrafted
    /\ view = Unmounted
    /\ bar = Unmounted
    /\ \E initialMarkers \in InitialMarkers, draft \in HookStoredDrafts :
          /\ storage = [EmptyStorage EXCEPT ![MarkerDraftKey(HookModelId)] = draft]
          /\ hook = HookMounted(initialMarkers, storage)

HookFrame ==
    UNCHANGED <<now, ticks, cache, cacheVars, dataVars, storeRet, attempts, drafted, view, bar>>

AddMarker(position) ==
    /\ hook.counter <= MaxMarkers
    /\ hook' = addMarker(hook, position, now)
    /\ UNCHANGED storage
    /\ HookFrame

UpdateMarkerPosition(markerId, position) ==
    /\ hook' = updateMarkerPosition(hook, markerId, position, now)
    /\ UNCHANGED storage
    /\ HookFrame

UpdateMarkerInfo(markerId, info) ==
    /\ hook' = updateMarkerInfo(hook, markerId, info, now)
    /\ UNCHANGED storage
    /\ HookFrame

DeleteMarker(markerId) ==
    /\ hook' = deleteMarker(hook, markerId, now)
    /\ UNCHANGED storage
    /\ HookFrame

SaveDraftMarkers(room) ==
    LET res == saveDraftMarkers(hook, storage, hook.markers, room, now)
    IN  /\ hook' = res.hook
        /\ storage' = res.storage
            /\ HookFrame

LoadDraftMarkers ==
    /\ hook' = loadDraftMarkers(hook, storage, now)
    /\ UNCHANGED storage
    /\ HookFrame

ClearDraftMarkers ==
    LET res == clearDraftMarkers(hook, storage, now)
    IN  /\ hook' = res.hook
        /\ storage' = res.storage
            /\ HookFrame

\* A timeout that is due fires: its callback is saveDraftMarkers.
AutoSaveFires(id, room) ==
    /\ \E timer \in hook.timers : timer.id = id /\ now >= timer.due
    /\ LET timer == CHOOSE pending \in hook.timers : pending.id = id
           res == saveDraftMarkers([hook EXCEPT !.timers = @ \ {timer}], storage,
                                   timer.markers, room, now)
       IN  /\ hook' = res.hook
           /\ storage' = res.storage
    /\ HookFrame

\* Time passes, up to the instant the next timeout is due.
HookAdvance(d) ==
    /\ \A timer \in hook.timers : now + d <= timer.due
    /\ Advance(d)

HookNext ==
    \/ \E position \in HookPositions : AddMarker(position)
    \/ \E markerId \in HookMarkerIds, position \in HookPositions :
          UpdateMarkerPosition(markerId, position)
    \/ \E markerId \in HookMarkerIds, info \in HookInfos : UpdateMarkerInfo(markerId, info)
    \/ \E markerId \in HookMarkerIds : DeleteMarker(markerId)
    \/ \E room \in HookRooms : SaveDraftMarkers(room)
    \/ LoadDraftMarkers
    \/ ClearDraftMarkers
    \/ \E id \in HookTimerIds, room \in HookRooms : AutoSaveFires(id, room)
    \/ \E d \in HookJumps : HookAdvance(d)

HookSpec == HookInit /\ [][HookNext]_vars

\* validateCoordinates(coords) of utils/coordinates.
validateCoordinates(coords) ==
    /\ coords.x >= 0
    /\ coords.x <= 100
    /\ coords.y >= 0
    /\ coords.y <= 100

\* The draft stored for the hook's model id, when it can be read.
StoredMarkers == loadMarkerDraft(storage, HookModelId).out.value

\* C23: whenever the markers differ from the last-saved snapshot exactly one
\* auto-save timeout is pending, it is due 30 seconds or less from now and
\* will save the markers of this render; when they do not differ no timeout
\* is pending and hasUnsavedChanges is false.
C23_AutoSave ==
    IF UnsavedNow(hook)
    THEN /\ Cardinality(hook.timers) = 1
         /\ \A timer \in hook.timers :
              /\ timer.due <= now + AUTO_SAVE_DELAY
              /\ timer.markers = hook.markers
    ELSE /\ hook.timers = {}
         /\ ~hook.hasUnsavedChanges

\* C24: no two markers of the in-memory list have the same id.
C24_UniqueMarkerIds ==
    \A i, j \in 1..Len(hook.markers) :
        hook.markers[i].id = hook.markers[j].id => i = j

\* C25: every marker of the draft in storage has a position with
\* 0 <= x <= 100 and 0 <= y <= 100.
C25_StoredPositionsValid ==
    IsSome(StoredMarkers) =>
        \A i \in 1..Len(Val(StoredMarkers)) :
            validateCoordinates(Val(StoredMarkers)[i].position)

\* C30: hasUnsavedChanges is true exactly when the serialized markers differ
\* from the serialized last-saved snapshot.
C30_UnsavedFlagExact == hook.hasUnsavedChanges <=> UnsavedNow(hook)

====
